---- MODULE Spec2Model ----
(***************************************************************************)
(* USB rubber-ducky defender: the device registry (sqlite table            *)
(* device_details), the monitoring loop with its analysis pipeline         *)
(* (usb_monitor.py on Windows, usb_linux.py on Linux), the dashboard's     *)
(* administrative actions (server.py) and the enforcement calls            *)
(* (allow_block.py, allow_block_linux.py).                                 *)
(*                                                                         *)
(* The monitoring loop runs on the main thread and the dashboard on a      *)
(* daemon thread of the same process; each SQL statement is committed on   *)
(* its own, so the two interleave between statements.  Every action below  *)
(* is one such atomic stretch of one thread.                               *)
(*                                                                         *)
(* Strings the code inspects character by character (vendor id, product    *)
(* id, serial, key names) are sequences of one-character strings.          *)
(*                                                                         *)
(* server.py (lines 9, 11, 114) and usb_monitor.py (line 224) spell        *)
(* __file__ and __name__ with single underscores, and usb_linux.py imports *)
(* server_linux and ml_linux, which are not among the source files.  The   *)
(* model describes the functions as they run once their module is loaded   *)
(* and the entry point has called usb_monitor_loop(); the linux dashboard  *)
(* and detector are taken to be server.py and ml.py with the linux         *)
(* enforcement calls.  ml.py line 11 reads COMMAND KEYWORDS for            *)
(* COMMAND_KEYWORDS (the name line 180 uses); the detector is modelled     *)
(* with the list under the name its code refers to.                        *)
(*                                                                         *)
(* Spec is the program.  SpecAnyModel is the program with a detector that  *)
(* may hold no model.  SpecML calls extract_features and predict on their  *)
(* own, SpecGateway the linux gateway on one device, SpecSerial            *)
(* normalize_serial on one raw serial, SpecFetcher the standalone fetcher  *)
(* usb_fetcher.py.                                                         *)
(***************************************************************************)
EXTENDS Integers, Sequences, FiniteSets, Bags, TLC

VARIABLES
    platform,       \* "windows" (usb_monitor.py) or "linux" (usb_linux.py)
    backend,        \* devcon_path found / usb_auth_supported, fixed at startup
    attached,       \* devices physically plugged in (the enumerator's view)
    last_check,     \* USBMonitor's last_check_devices (windows loop)
    seen_devices,   \* the loop's in-memory set of identity keys
    current_devices,\* the linux loop's current_devices of this tick
    reg,            \* device_details: id -> row
    next_id,        \* AUTOINCREMENT: the id the next INSERT gets
    now,            \* number of poll ticks so far; CURRENT_TIMESTAMP
    m_pc,           \* position of the monitoring thread
    m_todo,         \* devices of this tick the for loop has not reached
    m_key,          \* (vid, pid, serial) being handled
    m_existing,     \* result of the SELECT in check_or_insert_device
    m_result,       \* classification of the running analysis pass
    m_rowcount,     \* cur.rowcount: rows the pass's UPDATE matched
    a_pc,           \* position of the dashboard request handler
    a_req,          \* the request it is handling
    a_resp,         \* HTTP status of the last finished request
    calls,          \* bag of enforcement calls made so far
    n_starts,       \* per key: analysis passes started so far
    admin_touched,  \* keys whose row an administrator action has changed
    admin_set,      \* ids of the rows last set by an allow or block action
    touched,        \* ids of the rows an observation has updated last_seen of
    pass_touched,   \* an administrator changed the key's row during this pass
    n_events,       \* plug events and dashboard requests so far
    n_restarts,     \* times the program was stopped and started again
    model_loaded,   \* ml_detector.model is not None
    skip_reason,    \* why the pass that has just returned made no verdict
    prev_enum,      \* devices the enumerator reported at the previous tick
    newly,          \* devices of this tick that were not there at the previous
    \* -- extract_features and predict called on their own
    ml_pc,          \* "start", "extracted", "predicted", "given"; "off"
    ml_window,      \* the keystroke window handed to extract_features
    ml_loaded,      \* self.model is not None
    ml_pred,        \* the class the forest returns for the vector
    ml_features,    \* what extract_features returned
    ml_verdict,     \* what predict returned
    \* -- the linux gateway called on its own for one device
    g_on,           \* the gateway is being exercised
    g_root,         \* os.geteuid() == 0
    g_udevadm,      \* the udevadm binary is installed
    g_backend,      \* usb_auth_supported
    g_rules,        \* rule files present under /etc/udev/rules.d
    g_present,      \* the device is plugged in (has a sysfs path)
    g_authorized,   \* content of its sysfs authorized file
    g_reg,          \* device_details with the device's row
    g_prev,         \* the action before the last one
    g_last,         \* the last action, with what its rule-file step did
    g_steps,        \* actions and restarts so far
    \* -- normalize_serial called on its own
    s_pc,           \* "start", "done"; "off"
    s_platform,     \* whose normalize_serial: "windows" or "linux"
    s_raw,          \* the serial the enumerator reported (<<>>: None or '')
    s_out,          \* what normalize_serial returned
    \* -- usb_fetcher.py, the standalone fetcher
    f_pc,           \* "poll", "sleep", "done"; "off"
    f_time,         \* time.time() - start_time, in half seconds
    f_attached,     \* devices plugged in
    f_last,         \* USBMonitor's last_check_devices
    f_detected,     \* new_device_detected
    f_handled,      \* the devices handed to check_or_insert_device, in order
    f_rows,         \* the keys that have a row in device_details
    f_events        \* plug events so far

ml_vars == <<ml_pc, ml_window, ml_loaded, ml_pred, ml_features, ml_verdict>>

gw_vars == <<g_on, g_root, g_udevadm, g_backend, g_rules, g_present,
             g_authorized, g_reg, g_prev, g_last, g_steps>>

\* what no step of the monitor or of the dashboard changes
ser_vars == <<s_pc, s_platform, s_raw, s_out>>

fet_vars == <<f_pc, f_time, f_attached, f_last, f_detected, f_handled,
              f_rows, f_events>>

fixed == <<model_loaded, ml_vars, gw_vars, ser_vars, fet_vars>>

main_vars == <<platform, backend, attached, last_check, seen_devices,
               current_devices, reg, next_id, now, m_pc, m_todo, m_key,
               m_existing, m_result, m_rowcount, a_pc, a_req, a_resp, calls,
               n_starts, admin_touched, admin_set, touched, pass_touched,
               n_events, n_restarts, model_loaded, skip_reason, prev_enum,
               newly>>

vars == <<main_vars, ml_vars, gw_vars, ser_vars, fet_vars>>

-----------------------------------------------------------------------------
(* Bounds of the model *)

MaxTicks == 3
MaxEvents == 3
MaxRestarts == 1
MaxId == 3
MaxWindowLen == 4
MaxGwSteps == 4
MaxSerialLen == 3
MaxFetchEvents == 2
MaxFetchTime == 64

-----------------------------------------------------------------------------
(* Identity values *)

HexChars == {"0","1","2","3","4","5","6","7","8","9",
             "a","b","c","d","e","f","A","B","C","D","E","F"}

NoSerial == <<"N","o","S","e","r","i","a","l">>
UnknownVID == <<"U","n","k","n","o","w","n","V","I","D">>

\* what the enumerator reports: vendor id, product id, raw serial (<<>> is an
\* absent or empty serial).  DevA and DevB are two devices of one model: same
\* vendor and product id, different serials.  DevBad reports no usable vendor
\* id: device_info.get(ID_VENDOR_ID, 'UnknownVID').
DevA == [vid |-> <<"0","7","8","1">>, pid |-> <<"5","5","6","7">>,
         serial |-> <<"A","B","&","0">>]
DevB == [vid |-> <<"0","7","8","1">>, pid |-> <<"5","5","6","7">>,
         serial |-> <<>>]
DevBad == [vid |-> UnknownVID, pid |-> <<"5","5","6","7">>,
           serial |-> <<>>]

\* usb_linux.py formats the ids from integers (f"{dev.idVendor:04X}"), so
\* only the windows enumerator can report a vendor id that is not hex
Devices(p) == IF p = "windows" THEN {DevA, DevB, DevBad} ELSE {DevA, DevB}

NonPrintable == {"NUL"}

Min(S) == CHOOSE x \in S : \A y \in S : x <= y

normalize_serial_windows(serial) ==
    IF serial = <<>> THEN NoSerial
    ELSE LET amp == {i \in 1..Len(serial) : serial[i] = "&"}
         IN  IF amp = {} THEN serial ELSE SubSeq(serial, 1, Min(amp) - 1)

RECURSIVE strip(_)
strip(s) ==
    IF s = <<>> THEN s
    ELSE IF Head(s) = " " THEN strip(Tail(s))
    ELSE IF s[Len(s)] = " " THEN strip(SubSeq(s, 1, Len(s) - 1))
    ELSE s

normalize_serial_linux(serial) ==
    IF serial = <<>> THEN NoSerial
    ELSE LET t == strip(SelectSeq(serial, LAMBDA c : c \notin NonPrintable))
         IN  IF t = <<>> THEN NoSerial ELSE t

normalize_serial(p, serial) ==
    IF p = "windows" THEN normalize_serial_windows(serial)
    ELSE normalize_serial_linux(serial)

device_key(p, d) == <<d.vid, d.pid, normalize_serial(p, d.serial)>>

Keys == {device_key(p, d) : p \in {"windows", "linux"}, d \in Devices("windows")}

\* the test with any() in place of all()
is_hex_any(s) == \E i \in 1..Len(s) : s[i] \in HexChars

is_hex(s) == \A i \in 1..Len(s) : s[i] \in HexChars

NoKey == <<>>

-----------------------------------------------------------------------------
(* The registry *)

NewRow(k, t) == [usb_vid |-> k[1], usb_pid |-> k[2], usb_serial |-> k[3],
                 device_type |-> "unknown", threat_level |-> "unknown",
                 last_seen |-> t]

RowKey(r) == <<r.usb_vid, r.usb_pid, r.usb_serial>>

\* ids of the rows WHERE usb_vid=? AND usb_pid=? AND usb_serial=?
RowsOf(r, k) == {i \in DOMAIN r : RowKey(r[i]) = k}

\* fetchone() of a SELECT that matched nothing: None
NotFound == [found |-> FALSE, id |-> 0, device_type |-> "none"]

\* a SELECT that matches no row
SelectByKey_nomatch(r, k) == NotFound

\* SELECT id, device_type ... fetchone()
SelectByKey(r, k) ==
    IF RowsOf(r, k) = {} THEN NotFound
    ELSE LET i == Min(RowsOf(r, k))
         IN  [found |-> TRUE, id |-> i, device_type |-> r[i].device_type]

-----------------------------------------------------------------------------
(* ml.py: keystroke windows, extract_features, predict *)

LowerMap == [c \in {"A","B","C","D","E","F","G","H","I","J","K","L","M","N",
                    "O","P","Q","R","S","T","U","V","W","X","Y","Z"} |->
    CASE c = "A" -> "a" [] c = "B" -> "b" [] c = "C" -> "c" [] c = "D" -> "d"
      [] c = "E" -> "e" [] c = "F" -> "f" [] c = "G" -> "g" [] c = "H" -> "h"
      [] c = "I" -> "i" [] c = "J" -> "j" [] c = "K" -> "k" [] c = "L" -> "l"
      [] c = "M" -> "m" [] c = "N" -> "n" [] c = "O" -> "o" [] c = "P" -> "p"
      [] c = "Q" -> "q" [] c = "R" -> "r" [] c = "S" -> "s" [] c = "T" -> "t"
      [] c = "U" -> "u" [] c = "V" -> "v" [] c = "W" -> "w" [] c = "X" -> "x"
      [] c = "Y" -> "y" [] c = "Z" -> "z"]

\* str.lower()
lower(s) == [i \in 1..Len(s) |->
                IF s[i] \in DOMAIN LowerMap THEN LowerMap[s[i]] ELSE s[i]]

\* str.replace(pat, rep): left to right, non-overlapping
RECURSIVE replace(_, _, _)
replace(s, pat, rep) ==
    IF Len(s) < Len(pat) THEN s
    ELSE IF SubSeq(s, 1, Len(pat)) = pat
         THEN rep \o replace(SubSeq(s, Len(pat) + 1, Len(s)), pat, rep)
         ELSE <<Head(s)>> \o replace(Tail(s), pat, rep)

\* klow = k.lower().replace('key.', '').replace('win_l','win').replace('win_r','win')
canon(k) ==
    replace(replace(replace(lower(k), <<"k","e","y",".">>, <<>>),
                    <<"w","i","n","_","l">>, <<"w","i","n">>),
            <<"w","i","n","_","r">>, <<"w","i","n">>)

W_space == <<"s","p","a","c","e">>
W_enter == <<"e","n","t","e","r">>
W_return == <<"r","e","t","u","r","n">>
W_backspace == <<"b","a","c","k","s","p","a","c","e">>
W_delete == <<"d","e","l","e","t","e">>
W_cmd == <<"c","m","d">>
W_win == <<"w","i","n">>
W_r == <<"r">>
W_sudo == <<"s","u","d","o">>
W_apt == <<"a","p","t">>

error_keys == {W_backspace, W_delete}
command_keys == {W_enter, W_return}
terminal_commands == {W_cmd, <<"p","o","w","e","r","s","h","e","l","l">>,
                      <<"t","e","r","m","i","n","a","l">>, <<"b","a","s","h">>,
                      <<"s","h">>, <<"z","s","h">>}

\* len(klow) == 1 and klow.isprintable()
IsChar(k) == Len(canon(k)) = 1 /\ canon(k)[1] \notin NonPrintable

\* the last index of the run of single printable characters that starts at i
RunEnd(raw, i) ==
    LET stops == {j \in i..Len(raw) : ~IsChar(raw[j])}
    IN  IF stops = {} THEN Len(raw) ELSE Min(stops) - 1

\* the for loop of extract_features over keys_raw[i..], one token at a
\* time: 'space' closes the word, a run of single printable characters is
\* the word the loop builds in its buffer and appends when the run ends,
\* any other key is appended as it is
RECURSIVE tokenize(_, _, _)
tokenize(raw, i, keys) ==
    IF i > Len(raw) THEN keys
    ELSE LET klow == canon(raw[i])
         IN  IF klow = W_space THEN tokenize(raw, i + 1, keys)
             ELSE IF IsChar(raw[i])
             THEN LET j == RunEnd(raw, i)
                      word == [m \in 1..(j - i + 1) |-> canon(raw[i + m - 1])[1]]
                  IN  tokenize(raw, j + 1, Append(keys, word))
             ELSE tokenize(raw, i + 1, Append(keys, klow))

Count(seq, S) == Cardinality({i \in 1..Len(seq) : seq[i] \in S})

NoFeatures == [none |-> TRUE]

\* the idioms of the terminal check: positions idx of keys with a pair at
\* (idx, idx + 1)
TerminalPairs(keys) ==
    {i \in 1..(Len(keys) - 1) :
        \/ (keys[i] = W_cmd /\ keys[i+1] = W_r)
        \/ (keys[i] = W_win /\ keys[i+1] = W_r)
        \/ (keys[i] \in terminal_commands /\ keys[i+1] \in command_keys)
        \/ (keys[i] = W_sudo /\ keys[i+1] = W_apt)}

\* COMMAND_KEYWORDS, each keyword as the tokens it is made of.  The entries
\* of the list that hold an upper-case letter or a character other than
\* letters, digits and blanks ("powershell.exe", "-nop", "WebClient", ...)
\* are left out: typed_text is lower case, and between the blanks that
\* separate its tokens a window of this model has letters only.
COMMAND_KEYWORDS ==
    <<
      <<<<"n","e","t">>>>,
      <<<<"t","a","s","k","l","i","s","t">>>>,
      <<<<"t","a","s","k","k","i","l","l">>>>,
      <<<<"r","e","g">>>>,
      <<<<"w","m","i","c">>>>,
      <<<<"s","c","h","t","a","s","k","s">>>>,
      <<<<"s","c">>>>,
      <<<<"a","t">>>>,
      <<<<"r","u","n","d","l","l","3","2">>>>,
      <<<<"d","e","l">>>>,
      <<<<"c","o","p","y">>>>,
      <<<<"a","t","t","r","i","b">>>>,
      <<<<"n","e","t","s","h">>>>,
      <<<<"c","e","r","t","u","t","i","l">>>>,
      <<<<"c","m","d">>>>,
      <<<<"p","o","w","e","r","s","h","e","l","l">>>>,
      <<<<"p","i","n","g">>>>,
      <<<<"t","r","a","c","e","r","t">>>>,
      <<<<"n","s","l","o","o","k","u","p">>>>,
      <<<<"n","e","t">>, <<"u","s","e">>>>,
      <<<<"n","e","t">>, <<"s","e","s","s","i","o","n">>>>,
      <<<<"n","e","t">>, <<"v","i","e","w">>>>,
      <<<<"n","e","t">>, <<"u","s","e","r">>>>,
      <<<<"w","h","o","a","m","i">>>>,
      <<<<"i","p","c","o","n","f","i","g">>>>,
      <<<<"s","h","u","t","d","o","w","n">>>>,
      <<<<"d","i","s","k","p","a","r","t">>>>,
      <<<<"r","e","g">>, <<"q","u","e","r","y">>>>,
      <<<<"r","e","g">>, <<"a","d","d">>>>,
      <<<<"r","e","g">>, <<"d","e","l","e","t","e">>>>,
      <<<<"r","e","g","e","d","i","t">>>>,
      <<<<"c","u","r","l">>>>,
      <<<<"w","g","e","t">>>>,
      <<<<"i","e","x">>>>,
      <<<<"d","o","w","n","l","o","a","d","f","i","l","e">>>>,
      <<<<"r","e","a","g","e","n","t","c">>>>,
      <<<<"r","e","c","o","v","e","r">>>>,
      <<<<"q","p","r","o","c","e","s","s">>>>,
      <<<<"q","u","e","r","y">>>>,
      <<<<"n","e","t">>, <<"s","t","a","r","t">>>>,
      <<<<"n","e","t">>, <<"g","r","o","u","p">>>>,
      <<<<"n","e","t">>, <<"c","o","n","f","i","g">>>>,
      <<<<"n","e","t">>, <<"s","h","a","r","e">>>>,
      <<<<"d","s","q","u","e","r","y">>>>,
      <<<<"c","s","v","d","e">>>>,
      <<<<"w","u","s","a">>>>,
      <<<<"m","s","h","t","a">>>>,
      <<<<"s","s","h">>>>,
      <<<<"s","c","p">>>>
    >>

\* len(re.findall(r"\b{kw}\b", typed_text)) summed over the keywords, for
\* typed_text = " ".join(keys): the places where the tokens of a keyword
\* stand as consecutive tokens of keys
keyword_count(keys) ==
    Cardinality({p \in (1..Len(COMMAND_KEYWORDS)) \X (1..Len(keys)) :
        LET kw == COMMAND_KEYWORDS[p[1]]
        IN  /\ p[2] + Len(kw) - 1 <= Len(keys)
            /\ \A j \in 1..Len(kw) : keys[p[2] + j - 1] = kw[j]})

\* len(typed_text.replace(" ", ""))
RECURSIVE TextLen(_)
TextLen(keys) ==
    IF keys = <<>> THEN 0 ELSE Len(Head(keys)) + TextLen(Tail(keys))

Max(a, b) == IF a >= b THEN a ELSE b

\* Features with the two rates taken over the tokens
Features_per_token(keystrokes, den) ==
    LET n == Len(keystrokes)
        keys == tokenize([i \in 1..n |-> keystrokes[i].k], 1, <<>>)
    IN  [none |-> FALSE,
         total_keys_5sec |-> n,
         speed_num |-> 1000 * n,
         speed_den |-> den,
         error_num |-> Count(keys, error_keys),
         command_num |-> Count(keys, command_keys),
         rate_den |-> Max(1, Len(keys)),
         keyword_num |-> keyword_count(keys),
         keyword_den |-> Max(1, TextLen(keys)),
         terminal_triggered |-> TerminalPairs(keys) # {},
         keys |-> keys]

\* the feature dict of a window of n >= 2 events whose speed is n over
\* den milliseconds.  error_rate = error_num / rate_den, command_rate =
\* command_num / rate_den, keyword_rate = keyword_num / keyword_den
Features(keystrokes, den) ==
    LET n == Len(keystrokes)
        keys == tokenize([i \in 1..n |-> keystrokes[i].k], 1, <<>>)
        total_keys == n
    IN  [none |-> FALSE,
         total_keys_5sec |-> total_keys,
         speed_num |-> 1000 * n,
         speed_den |-> den,
         error_num |-> Count(keys, error_keys),
         command_num |-> Count(keys, command_keys),
         rate_den |-> Max(1, total_keys),
         keyword_num |-> keyword_count(keys),
         keyword_den |-> Max(1, TextLen(keys)),
         terminal_triggered |-> TerminalPairs(keys) # {},
         keys |-> keys]

\* an extract_features that wants three events
extract_features_min3(keystrokes) ==
    LET n == Len(keystrokes)
    IN  IF n < 3 THEN NoFeatures
        ELSE Features(keystrokes, keystrokes[n].t - keystrokes[1].t + 1)

\* an extract_features that divides by the duration alone (by one
\* millisecond when the duration is zero)
extract_features_no_epsilon(keystrokes) ==
    LET n == Len(keystrokes)
    IN  IF n < 2 THEN NoFeatures
        ELSE LET duration == keystrokes[n].t - keystrokes[1].t
             IN  Features(keystrokes, IF duration = 0 THEN 1 ELSE duration)

\* extract_features(keystrokes); keystrokes[i] = [t |-> milliseconds, k |-> label].
\* avg_speed = n / (duration + 1e-3) keys/sec is kept as the fraction
\* speed_num / speed_den = 1000 n / (duration_ms + 1); the two rates are kept
\* as their numerators over max(1, total_keys).
extract_features(keystrokes) ==
    LET n == Len(keystrokes)
    IN  IF n < 2 THEN NoFeatures
        ELSE Features(keystrokes, keystrokes[n].t - keystrokes[1].t + 1)

rubberducky_speed_threshold == 100
MinKeysForAnalysis == 5

\* ml_detector.model is set by load_model() or train_model() before the loop
\* starts (usb_monitor.py 38-43), so the monitor always holds a model
ModelLoaded == TRUE

DigitChars == <<"0", "1", "2", "3", "4", "5", "6", "7", "8", "9">>

\* str(n) for a natural number n
RECURSIVE Digits(_)
Digits(n) ==
    IF n < 10 THEN <<DigitChars[n + 1]>>
    ELSE Digits(n \div 10) \o <<DigitChars[(n % 10) + 1]>>

\* f"{x:.2f}" for x = num / den >= 0: x rounded to hundredths, written with
\* its integer digits, a point and two decimals
format_2f(num, den) ==
    LET h == (200 * num + den) \div (2 * den)
    IN  Digits(h \div 100) \o <<".">>
          \o <<DigitChars[((h \div 10) % 10) + 1], DigitChars[(h % 10) + 1]>>

\* f"Extreme typing speed ({avg_speed:.2f} keys/sec)": the text and the number
SpeedReason(features) ==
    [text |-> "Extreme typing speed",
     value |-> format_2f(features.speed_num, features.speed_den)]

TerminalReason == [text |-> "Terminal open sequence detected", value |-> <<>>]

\* the thresholds of the secondary features; a rate threshold is kept as the
\* fraction num / den
ducky_threshold_5sec == 100 * 5
error_rate_threshold == [num |-> 2, den |-> 100]
command_rate_threshold == [num |-> 20, den |-> 100]
keyword_rate_threshold == [num |-> 10, den |-> 100]

\* f"{rate*100:.2f}%" for rate = num / den
Percent(num, den) == format_2f(100 * num, den)

HighKeysReason(features) ==
    [text |-> "High number of keys",
     value |-> Digits(features.total_keys_5sec)]

LowErrorReason(features) ==
    [text |-> "Very low error rate",
     value |-> Percent(features.error_num, features.rate_den)]

HighCommandReason(features) ==
    [text |-> "High command rate",
     value |-> Percent(features.command_num, features.rate_den)]

HighKeywordReason(features) ==
    [text |-> "High keyword rate",
     value |-> Percent(features.keyword_num, features.keyword_den)]

ModelReason == [text |-> "ML model classification", value |-> <<>>]

\* the reasons with "ML model classification" appended in every case
trigger_reason_always_model(features) ==
    (IF features.total_keys_5sec > ducky_threshold_5sec
     THEN <<HighKeysReason(features)>> ELSE <<>>)
    \o (IF features.error_num * error_rate_threshold.den
             < error_rate_threshold.num * features.rate_den
        THEN <<LowErrorReason(features)>> ELSE <<>>)
    \o (IF features.command_num * command_rate_threshold.den
             > command_rate_threshold.num * features.rate_den
        THEN <<HighCommandReason(features)>> ELSE <<>>)
    \o (IF features.keyword_num * keyword_rate_threshold.den
             > keyword_rate_threshold.num * features.keyword_den
        THEN <<HighKeywordReason(features)>> ELSE <<>>)
    \o <<ModelReason>>

\* trigger_reason as the pred == 1 branch of predict builds it
trigger_reason(features) ==
    LET past == (IF features.total_keys_5sec > ducky_threshold_5sec
                 THEN <<HighKeysReason(features)>> ELSE <<>>)
                \o (IF features.error_num * error_rate_threshold.den
                         < error_rate_threshold.num * features.rate_den
                    THEN <<LowErrorReason(features)>> ELSE <<>>)
                \o (IF features.command_num * command_rate_threshold.den
                         > command_rate_threshold.num * features.rate_den
                    THEN <<HighCommandReason(features)>> ELSE <<>>)
                \o (IF features.keyword_num * keyword_rate_threshold.den
                         > keyword_rate_threshold.num * features.keyword_den
                    THEN <<HighKeywordReason(features)>> ELSE <<>>)
    IN  IF past = <<>> THEN <<ModelReason>> ELSE past

\* the verdict of the forest: pred is the class it returns for the vector
ModelVerdict(features, pred) ==
    [result |-> IF pred = 1 THEN "USB_DUCKY" ELSE "HUMAN",
     confidence |-> "proba",
     reasons |-> IF pred = 1 THEN trigger_reason(features) ELSE <<>>]

\* a predict that looks at the terminal flag before the speed
predict_terminal_first(features, loaded, pred) ==
    IF features.terminal_triggered
    THEN [result |-> "USB_DUCKY", confidence |-> "100",
          reasons |-> <<TerminalReason>>]
    ELSE IF features.speed_num >= rubberducky_speed_threshold * features.speed_den
    THEN [result |-> "USB_DUCKY", confidence |-> "100",
          reasons |-> <<SpeedReason(features)>>]
    ELSE IF ~loaded
    THEN [result |-> "None", confidence |-> "None", reasons |-> <<>>]
    ELSE ModelVerdict(features, pred)

\* predict(features) with self.model loaded or not; pred is the class the
\* trained forest returns for the vector (1 = ducky)
predict(features, loaded, pred) ==
    IF features.speed_num >= rubberducky_speed_threshold * features.speed_den
    THEN [result |-> "USB_DUCKY", confidence |-> "100",
          reasons |-> <<SpeedReason(features)>>]
    ELSE IF features.terminal_triggered
    THEN [result |-> "USB_DUCKY", confidence |-> "100",
          reasons |-> <<TerminalReason>>]
    ELSE IF ~loaded
    THEN [result |-> "None", confidence |-> "None", reasons |-> <<>>]
    ELSE ModelVerdict(features, pred)

\* ---- the windows capture_5_seconds() hands to the pipeline in this model
Key(name) == <<"K","e","y",".">> \o name

Evenly(labels, step) == [i \in 1..Len(labels) |-> [t |-> (i - 1) * step, k |-> labels[i]]]

WinEmpty == <<>>
WinRun == Evenly(<<Key(W_cmd), <<"r">>>>, 100)
WinHuman == Evenly(<<<<"h">>, <<"e">>, <<"l">>, <<"l">>, <<"o">>>>, 500)
WinFast == Evenly(<<<<"a">>, <<"a">>, <<"a">>, <<"a">>, <<"a">>>>, 1)
WinShell == Evenly(<<Key(W_cmd), <<"r">>, <<"c">>, <<"m">>, <<"d">>, Key(W_enter)>>, 600)

CaptureWindows == {WinEmpty, WinRun, WinHuman, WinFast, WinShell}

\* ---- the inputs extract_features and predict are called on by themselves
\* labels as on_press records them: the character of a character key,
\* str(key) of a special key
MLLabels == {Key(W_cmd), <<"r">>, <<"s">>, <<"h">>, Key(W_enter), Key(W_space)}

\* milliseconds between two keys: a burst, and slow typing
MLSteps == {1, 500}

LabelSeqs == UNION {[1..n -> MLLabels] : n \in 0..MaxWindowLen}

\* 600 keys, the first at 0 and the last at 1000 ms, evenly spaced
Win600 == [i \in 1..600 |-> [t |-> ((i - 1) * 1000) \div 599, k |-> <<"a">>]]

\* slow typing with a correction: two letters, a backspace, a letter, enter
WinTypo ==
    Evenly(<<<<"h">>, <<"s">>, Key(W_backspace), <<"s">>, Key(W_enter)>>, 500)

\* a burst with a backspace, an enter and the run-dialog pair in it
WinFastMixed ==
    Evenly(<<<<"a">>, Key(W_backspace), Key(W_enter), Key(W_cmd), <<"r">>>>, 1)

MLWindows ==
    {Evenly(l, step) : l \in LabelSeqs, step \in MLSteps}
      \cup CaptureWindows \cup {Win600, WinFastMixed, WinTypo}

\* feature dicts handed to predict directly: speeds of 99, 100 and 600
\* keys/sec; 500 and 501 keys; error rates of 0, 2 and 20 per cent, command
\* rates of 0, 20 and 40 per cent, keyword rates of 0, 10 and 20 per cent
FeatureVectors ==
    [none : {FALSE}, total_keys_5sec : {2, 500, 501},
     speed_num : {99000, 100000, 600000}, speed_den : {1000},
     error_num : {0, 1}, command_num : {0, 1, 2}, rate_den : {5, 50},
     keyword_num : {0, 1, 2}, keyword_den : {10},
     terminal_triggered : BOOLEAN, keys : {<<>>}]

NoVerdict == [result |-> "none", confidence |-> "none", reasons |-> <<>>]

-----------------------------------------------------------------------------
(* allow_block_linux.py: the udev rule files and the sysfs authorized flag *)

\* str.upper()
upper(s) == [i \in 1..Len(s) |->
                IF \E c \in DOMAIN LowerMap : LowerMap[c] = s[i]
                THEN CHOOSE c \in DOMAIN LowerMap : LowerMap[c] = s[i]
                ELSE s[i]]

\* /etc/udev/rules.d/99-usb-block-{vid}-{pid}.rules
rule_file(vid, pid) == <<lower(vid), lower(pid)>>

\* create_udev_block_rule on the set of rule files; wr_ok: open(rule_file,
\* 'w') and the write did not raise.  A missing udevadm raises after the
\* file is written: the rule is there and the function returns False.
create_udev_block_rule(rules, vid, pid, root, udevadm, wr_ok) ==
    IF ~root THEN [rules |-> rules, ret |-> FALSE]
    ELSE IF ~wr_ok THEN [rules |-> rules, ret |-> FALSE]
    ELSE [rules |-> rules \cup {rule_file(vid, pid)}, ret |-> udevadm]

\* a removal that reloads udev and leaves the file where it is
remove_udev_block_rule_keeps_file(rules, vid, pid, root, udevadm, rm_ok) ==
    IF ~root THEN [rules |-> rules, ret |-> FALSE]
    ELSE [rules |-> rules, ret |-> udevadm]

\* remove_udev_block_rule; rm_ok: os.remove(rule_file) did not raise
remove_udev_block_rule(rules, vid, pid, root, udevadm, rm_ok) ==
    IF ~root THEN [rules |-> rules, ret |-> FALSE]
    ELSE IF rule_file(vid, pid) \in rules /\ ~rm_ok
    THEN [rules |-> rules, ret |-> FALSE]
    ELSE [rules |-> rules \ {rule_file(vid, pid)}, ret |-> udevadm]

\* block_device_linux with unauthorize_device_immediate outside its try: a
\* failed write to the authorized file is an exception the caller gets
block_device_linux_toggle_raises(os, vid, pid, wr_ok, tog_ok) ==
    LET c == create_udev_block_rule(os.rules, lower(upper(vid)),
                                    lower(upper(pid)), os.root, os.udevadm,
                                    wr_ok)
    IN  [rules |-> c.rules,
         authorized |-> IF os.present /\ tog_ok THEN FALSE ELSE os.authorized,
         ret |-> IF os.present THEN TRUE ELSE c.ret,
         raised |-> os.present /\ ~tog_ok]

\* block_device_linux(vid, pid) on the system os = [rules, authorized,
\* present, root, udevadm]; present: find_usb_device_paths found the
\* device; tog_ok: the write of '0' to its authorized file went through;
\* raised: an exception left the function (each step has its own try)
block_device_linux(os, vid, pid, wr_ok, tog_ok) ==
    LET c == create_udev_block_rule(os.rules, lower(upper(vid)),
                                    lower(upper(pid)), os.root, os.udevadm,
                                    wr_ok)
    IN  [rules |-> c.rules,
         authorized |-> IF os.present /\ tog_ok THEN FALSE ELSE os.authorized,
         ret |-> IF os.present THEN TRUE ELSE c.ret,
         raised |-> FALSE]

\* allow_device_linux(vid, pid); tog_ok: the write of '1' went through
allow_device_linux(os, vid, pid, rm_ok, tog_ok) ==
    LET c == remove_udev_block_rule(os.rules, lower(upper(vid)),
                                    lower(upper(pid)), os.root, os.udevadm,
                                    rm_ok)
    IN  [rules |-> c.rules,
         authorized |-> IF os.present /\ tog_ok THEN TRUE ELSE os.authorized,
         ret |-> IF os.present THEN TRUE ELSE c.ret,
         raised |-> FALSE]

\* the device the gateway is exercised on; usb_linux.py formats the ids in
\* upper case (f"{dev.idVendor:04X}")
GwDev == [vid |-> <<"0","4","F","2">>, pid |-> <<"B","0","0","8">>,
          serial |-> <<>>]

NoGwAction == [action |-> "none", called |-> FALSE, file_ok |-> FALSE,
               had_rule |-> FALSE, present |-> FALSE, tog_ok |-> FALSE,
               ret |-> FALSE, raised |-> FALSE]

-----------------------------------------------------------------------------
(* Initial state: the process has started, the table exists and is empty,  *)
(* the devices already plugged in are known to the enumerator.             *)

NoRequest == [id |-> 0, action |-> "none", vid |-> <<>>, pid |-> <<>>]

EmptyReg == [i \in {} |-> NewRow(<<<<>>, <<>>, <<>>>>, 0)]

InitMain ==
    /\ platform \in {"windows", "linux"}
    /\ backend \in BOOLEAN
    /\ attached \in SUBSET Devices(platform)
    \* USBMonitor() records the devices present when it is constructed;
    \* the linux loop seeds seen_devices with them
    /\ last_check = (IF platform = "windows" THEN attached ELSE {})
    /\ seen_devices = (IF platform = "windows" THEN {}
                       ELSE {device_key(platform, d) : d \in attached})
    /\ current_devices = {}
    /\ reg = EmptyReg
    /\ next_id = 1
    /\ now = 0
    /\ m_pc = "poll"
    /\ m_todo = {}
    /\ m_key = NoKey
    /\ m_existing = NotFound
    /\ m_result = "none"
    /\ m_rowcount = 0
    /\ a_pc = "idle"
    /\ a_req = NoRequest
    /\ a_resp = 0
    /\ calls = EmptyBag
    /\ n_starts = [k \in Keys |-> 0]
    /\ admin_touched = {}
    /\ admin_set = {}
    /\ touched = {}
    /\ pass_touched = FALSE
    /\ n_events = 0
    /\ n_restarts = 0
    /\ skip_reason = "none"
    /\ prev_enum = attached
    /\ newly = {}

\* extract_features and predict are not being called on their own
MLOff ==
    /\ ml_pc = "off"
    /\ ml_window = <<>>
    /\ ml_loaded = FALSE
    /\ ml_pred = 0
    /\ ml_features = NoFeatures
    /\ ml_verdict = NoVerdict

\* the gateway is not being exercised on its own
GwOff ==
    /\ g_on = FALSE
    /\ g_root = FALSE
    /\ g_udevadm = FALSE
    /\ g_backend = FALSE
    /\ g_rules = {}
    /\ g_present = FALSE
    /\ g_authorized = TRUE
    /\ g_reg = EmptyReg
    /\ g_prev = "none"
    /\ g_last = NoGwAction
    /\ g_steps = 0

\* normalize_serial is not being called on its own
SerOff ==
    /\ s_pc = "off"
    /\ s_platform = "windows"
    /\ s_raw = <<>>
    /\ s_out = <<>>

\* usb_fetcher.py is not running
FetOff ==
    /\ f_pc = "off"
    /\ f_time = 0
    /\ f_attached = {}
    /\ f_last = {}
    /\ f_detected = FALSE
    /\ f_handled = <<>>
    /\ f_rows = {}
    /\ f_events = 0

\* the program: the detector holds a model when the loop starts
Init ==
    /\ InitMain
    /\ model_loaded = ModelLoaded
    /\ MLOff
    /\ GwOff
    /\ SerOff
    /\ FetOff

\* the monitor and the dashboard are not running
MainOff ==
    /\ InitMain
    /\ platform = "linux"
    /\ backend = FALSE
    /\ attached = {}
    /\ model_loaded = ModelLoaded

-----------------------------------------------------------------------------
(* The environment: devices are plugged in and pulled out.  The enumerator  *)
(* is read by Poll alone, so a plug event at any other moment is the same   *)
(* as that event just before the next poll: the events are taken there.     *)

Attach(d) ==
    /\ d \notin attached
    /\ m_pc = "poll"
    /\ n_events < MaxEvents
    /\ n_events' = n_events + 1
    /\ attached' = attached \cup {d}
    /\ UNCHANGED <<platform, backend, last_check, seen_devices,
                   current_devices, reg, next_id, now, m_pc, m_todo, m_key,
                   m_existing, m_result, m_rowcount, a_pc, a_req, a_resp,
                   calls, n_starts, admin_touched, admin_set, touched,
                   pass_touched, n_restarts>>
    /\ UNCHANGED <<skip_reason, fixed>>
    /\ UNCHANGED <<prev_enum, newly>>

Detach(d) ==
    /\ d \in attached
    /\ m_pc = "poll"
    /\ n_events < MaxEvents
    /\ n_events' = n_events + 1
    /\ attached' = attached \ {d}
    /\ UNCHANGED <<platform, backend, last_check, seen_devices,
                   current_devices, reg, next_id, now, m_pc, m_todo, m_key,
                   m_existing, m_result, m_rowcount, a_pc, a_req, a_resp,
                   calls, n_starts, admin_touched, admin_set, touched,
                   pass_touched, n_restarts>>
    /\ UNCHANGED <<skip_reason, fixed>>
    /\ UNCHANGED <<prev_enum, newly>>

-----------------------------------------------------------------------------
(* The program is stopped (Ctrl-C: KeyboardInterrupt, sys.exit) while the   *)
(* loop sleeps and no request is being served, and is started again.  The  *)
(* table in usb_devices.db stays (CREATE TABLE IF NOT EXISTS); everything   *)
(* held in memory starts afresh.                                            *)

Restart ==
    /\ m_pc = "poll"
    /\ a_pc = "idle"
    /\ n_restarts < MaxRestarts
    /\ n_restarts' = n_restarts + 1
    /\ last_check' = (IF platform = "windows" THEN attached ELSE {})
    /\ seen_devices' = (IF platform = "windows" THEN {}
                        ELSE {device_key(platform, d) : d \in attached})
    /\ current_devices' = {}
    /\ a_resp' = 0
    /\ UNCHANGED <<platform, backend, attached, reg, next_id, now, m_pc,
                   m_todo, m_key, m_existing, m_result, m_rowcount, a_pc,
                   a_req, calls, n_starts, admin_touched, admin_set,
                   touched, pass_touched, n_events>>
    /\ skip_reason' = "none"
    /\ UNCHANGED fixed
    /\ prev_enum' = attached
    /\ newly' = {}

-----------------------------------------------------------------------------
(* usb_monitor_loop *)

\* the head of one while-True iteration: enumerate the devices
Poll ==
    /\ m_pc = "poll"
    /\ now < MaxTicks
    /\ now' = now + 1
    /\ IF platform = "windows"
       THEN \* removed, added = monitor.changes_from_last_check(True)
            /\ m_todo' = attached \ last_check
            /\ last_check' = attached
            /\ UNCHANGED current_devices
       ELSE \* devices = usb.core.find(find_all=True); current_devices = set()
            /\ m_todo' = attached
            /\ current_devices' = {}
            /\ UNCHANGED last_check
    /\ m_pc' = "iter"
    /\ UNCHANGED <<platform, backend, attached, seen_devices, reg, next_id,
                   m_key, m_existing, m_result, m_rowcount, a_pc, a_req,
                   a_resp, calls, n_starts, admin_touched, admin_set,
                   touched, pass_touched, n_events, n_restarts>>
    /\ UNCHANGED <<skip_reason, fixed>>
    /\ prev_enum' = attached
    /\ newly' = attached \ prev_enum

\* one turn of the for loop, up to the call of check_or_insert_device
NextDevice(d) ==
    /\ m_pc = "iter"
    /\ d \in m_todo
    /\ m_todo' = m_todo \ {d}
    /\ LET device_key_ == device_key(platform, d)
           skipped == platform = "windows" /\ (~is_hex(d.vid) \/ ~is_hex(d.pid))
       IN  /\ current_devices' =
                 (IF platform = "linux" THEN current_devices \cup {device_key_}
                  ELSE current_devices)
           /\ IF ~skipped /\ device_key_ \notin seen_devices
              THEN /\ seen_devices' = seen_devices \cup {device_key_}
                   /\ m_key' = device_key_
                   /\ m_pc' = "select"
              ELSE UNCHANGED <<seen_devices, m_key, m_pc>>
    /\ UNCHANGED <<platform, backend, attached, last_check, reg, next_id,
                   now, m_existing, m_result, m_rowcount, a_pc, a_req,
                   a_resp, calls, n_starts, admin_touched, admin_set,
                   touched, pass_touched, n_events, n_restarts>>
    /\ skip_reason' = "none"
    /\ UNCHANGED fixed
    /\ UNCHANGED <<prev_enum, newly>>

\* the for loop is exhausted: the removal report, then time.sleep(1)
EndTick ==
    /\ m_pc = "iter"
    /\ m_todo = {}
    /\ seen_devices' =
          (IF platform = "linux" /\ seen_devices \ current_devices # {}
           THEN current_devices ELSE seen_devices)
    /\ m_pc' = "poll"
    /\ UNCHANGED <<platform, backend, attached, last_check, current_devices,
                   reg, next_id, now, m_todo, m_key, m_existing, m_result,
                   m_rowcount, a_pc, a_req, a_resp, calls, n_starts,
                   admin_touched, admin_set, touched, pass_touched,
                   n_events, n_restarts>>
    /\ skip_reason' = "none"
    /\ UNCHANGED fixed
    /\ UNCHANGED <<prev_enum, newly>>

-----------------------------------------------------------------------------
(* check_or_insert_device *)

\* the locals of check_or_insert_device and analyze_device_with_ml
locals == <<m_key, m_existing, m_result, m_rowcount, pass_touched>>

\* the call returns to the for loop: its locals are gone
Return ==
    /\ m_key' = NoKey
    /\ m_existing' = NotFound
    /\ m_result' = "none"
    /\ m_rowcount' = 0
    /\ pass_touched' = FALSE

\* SELECT id, device_type FROM device_details WHERE vid, pid, serial
Select ==
    /\ m_pc = "select"
    /\ m_existing' = SelectByKey(reg, m_key)
    /\ m_pc' = (IF m_existing'.found THEN "touch" ELSE "insert")
    /\ UNCHANGED <<platform, backend, attached, last_check, seen_devices,
                   current_devices, reg, next_id, now, m_todo, m_key,
                   m_result, m_rowcount, a_pc, a_req, a_resp, calls,
                   n_starts, admin_touched, admin_set, touched,
                   pass_touched, n_events, n_restarts>>
    /\ UNCHANGED <<skip_reason, fixed>>
    /\ UNCHANGED <<prev_enum, newly>>

\* AfterTouch with the skip applied to whitelisted rows only
AfterTouch_whitelisted_only(device_type) ==
    IF device_type = "whitelisted" THEN "iter" ELSE "capture"

\* AfterTouch without the skip
AfterTouch_always(device_type) == "capture"

\* where check_or_insert_device goes after its UPDATE of last_seen, by the
\* device_type the SELECT returned
AfterTouch(device_type) ==
    IF device_type \in {"whitelisted", "blocked"} THEN "iter"
    ELSE IF device_type = "unknown" THEN "capture"
    ELSE "iter"

\* an UPDATE of last_seen that also resets the state columns
TouchRow_reset(r, id, t) ==
    [i \in DOMAIN r |->
        IF i = id THEN [r[i] EXCEPT !.last_seen = t, !.device_type = "unknown",
                                    !.threat_level = "unknown"]
        ELSE r[i]]

\* UPDATE device_details SET last_seen=CURRENT_TIMESTAMP WHERE id=?
TouchRow(r, id, t) ==
    [i \in DOMAIN r |-> IF i = id THEN [r[i] EXCEPT !.last_seen = t] ELSE r[i]]

\* existing row: UPDATE last_seen, then skip or analyse
Touch ==
    /\ m_pc = "touch"
    /\ reg' = TouchRow(reg, m_existing.id, now)
    /\ touched' = touched \cup ({m_existing.id} \cap DOMAIN reg)
    /\ m_pc' = AfterTouch(m_existing.device_type)
    /\ IF m_pc' = "capture"
       THEN /\ n_starts' = [n_starts EXCEPT ![m_key] = @ + 1]
            /\ UNCHANGED locals
       ELSE /\ Return
            /\ UNCHANGED n_starts
    /\ UNCHANGED <<platform, backend, attached, last_check, seen_devices,
                   current_devices, next_id, now, m_todo, a_pc, a_req,
                   a_resp, calls, admin_touched, admin_set,
                   n_events, n_restarts>>
    /\ UNCHANGED <<skip_reason, fixed>>
    /\ UNCHANGED <<prev_enum, newly>>

\* new device: INSERT with unknown/unknown, then analyse
Insert ==
    /\ m_pc = "insert"
    /\ next_id <= MaxId
    /\ reg' = [i \in DOMAIN reg \cup {next_id} |->
                 IF i = next_id THEN NewRow(m_key, now) ELSE reg[i]]
    /\ next_id' = next_id + 1
    /\ m_pc' = "capture"
    /\ n_starts' = [n_starts EXCEPT ![m_key] = @ + 1]
    /\ UNCHANGED <<platform, backend, attached, last_check, seen_devices,
                   current_devices, now, m_todo, m_key, m_existing,
                   m_result, m_rowcount, a_pc, a_req, a_resp, calls,
                   admin_touched, admin_set, touched, pass_touched,
                   n_events, n_restarts>>
    /\ UNCHANGED <<skip_reason, fixed>>
    /\ UNCHANGED <<prev_enum, newly>>

-----------------------------------------------------------------------------
(* analyze_device_with_ml *)

\* what the pass does with the captured window: "skipped" (the early return),
\* "crash" (the result print formats confidence None with :.2f, a TypeError
\* nothing catches), or the classification
AnalyseWith(keystrokes, loaded, pred) ==
    LET features == extract_features(keystrokes)
    IN  IF features.none THEN "skipped"
        ELSE IF features.total_keys_5sec < MinKeysForAnalysis THEN "skipped"
        ELSE LET r == predict(features, loaded, pred)
             IN  IF r.confidence = "None" THEN "crash" ELSE r.result

\* a window without features that is classified like any other
Analyse_no_early_return(keystrokes, pred) ==
    LET features == extract_features(keystrokes)
    IN  IF features.none THEN "HUMAN"
        ELSE AnalyseWith(keystrokes, model_loaded, pred)

\* the pass of the monitor, with the detector it holds
Analyse(keystrokes, pred) == AnalyseWith(keystrokes, model_loaded, pred)

\* which of the two early returns a skipped pass took
SkipReason(keystrokes) ==
    IF extract_features(keystrokes).none THEN "no_features" ELSE "few_keys"

\* capture_5_seconds() returns; extract_features; predict; the prints
CaptureEnd(keystrokes, pred) ==
    /\ m_pc = "capture"
    /\ LET r == Analyse(keystrokes, pred)
       IN  IF r = "skipped"
           THEN /\ m_pc' = "iter"
                /\ skip_reason' = SkipReason(keystrokes)
                /\ Return
           ELSE /\ m_pc' = (IF r = "crash" THEN "crashed" ELSE "write")
                /\ m_result' = r
                /\ UNCHANGED <<m_key, m_existing, m_rowcount, pass_touched,
                               skip_reason>>
    /\ UNCHANGED <<platform, backend, attached, last_check, seen_devices,
                   current_devices, reg, next_id, now, m_todo, a_pc, a_req,
                   a_resp, calls, n_starts, admin_touched, admin_set,
                   touched, n_events, n_restarts>>
    /\ UNCHANGED fixed
    /\ UNCHANGED <<prev_enum, newly>>

\* the USB_DUCKY UPDATE with the device_type column left out
VerdictWrite_threat_only(r, k, result) ==
    [i \in DOMAIN r |->
        IF RowKey(r[i]) = k
        THEN [r[i] EXCEPT !.threat_level =
                              IF result = "USB_DUCKY" THEN "high" ELSE "low"]
        ELSE r[i]]

\* a verdict write that whitelists the device it found human
VerdictWrite_auto_allow(r, k, result) ==
    [i \in DOMAIN r |->
        IF RowKey(r[i]) = k
        THEN IF result = "USB_DUCKY"
             THEN [r[i] EXCEPT !.threat_level = "high",
                               !.device_type = "blocked"]
             ELSE [r[i] EXCEPT !.threat_level = "low",
                               !.device_type = "whitelisted"]
        ELSE r[i]]

\* the UPDATE the pass issues for its result, WHERE vid, pid, serial
VerdictWrite(r, k, result) ==
    [i \in DOMAIN r |->
        IF RowKey(r[i]) = k
        THEN IF result = "USB_DUCKY"
             THEN [r[i] EXCEPT !.threat_level = "high",
                               !.device_type = "blocked"]
             ELSE [r[i] EXCEPT !.threat_level = "low"]
        ELSE r[i]]

Write ==
    /\ m_pc = "write"
    /\ reg' = VerdictWrite(reg, m_key, m_result)
    /\ IF m_result = "USB_DUCKY"
       THEN /\ m_pc' = "enforce"
            /\ m_rowcount' = Cardinality(RowsOf(reg, m_key))
            /\ UNCHANGED <<m_key, m_existing, m_result, pass_touched>>
       ELSE m_pc' = "iter" /\ Return
    /\ UNCHANGED <<platform, backend, attached, last_check, seen_devices,
                   current_devices, next_id, now, m_todo, a_pc, a_req,
                   a_resp, calls, n_starts, admin_touched, admin_set,
                   touched, n_events, n_restarts>>
    /\ UNCHANGED <<skip_reason, fixed>>
    /\ UNCHANGED <<prev_enum, newly>>

\* the enforcement calls so far, with one more
Called(by, op, vid, pid, ok) ==
    calls (+) SetToBag({[by |-> by, op |-> op, vid |-> vid, pid |-> pid,
                         ok |-> ok]})

\* if devcon_path / usb_auth_supported: block_device(vid, pid); else a
\* warning.  ok is what the call returns
MonitorEnforce(ok) ==
    IF backend THEN Called("monitor", "block", m_key[1], m_key[2], ok)
    ELSE calls

\* an enforcement step that undoes the registry write when the call failed
AfterEnforce_rollback(r, rows, ok) ==
    IF ok THEN r
    ELSE [i \in DOMAIN r |->
            IF i \in rows THEN [r[i] EXCEPT !.device_type = "unknown",
                                            !.threat_level = "unknown"]
            ELSE r[i]]

\* an enforcement step that writes the blocked state only once the call
\* has returned
AfterEnforce_late_write(r, rows, ok) ==
    [i \in DOMAIN r |->
        IF i \in rows THEN [r[i] EXCEPT !.device_type = "blocked",
                                        !.threat_level = "high"]
        ELSE r[i]]

\* the registry once an enforcement call has returned ok for the rows it was
\* made for: the handlers print the outcome and write nothing
AfterEnforce(r, rows, ok) == r

Enforce ==
    /\ m_pc = "enforce"
    /\ \E ok \in BOOLEAN :
          /\ calls' = MonitorEnforce(ok)
          /\ reg' = AfterEnforce(reg, RowsOf(reg, m_key), ok)
    /\ m_pc' = "iter"
    /\ Return
    /\ UNCHANGED <<platform, backend, attached, last_check, seen_devices,
                   current_devices, next_id, now, m_todo, a_pc, a_req,
                   a_resp, n_starts, admin_touched, admin_set, touched,
                   n_events, n_restarts>>
    /\ UNCHANGED <<skip_reason, fixed>>
    /\ UNCHANGED <<prev_enum, newly>>

-----------------------------------------------------------------------------
(* server.py: update_device *)

Actions == {"allow", "block", "remove", "bogus"}

InPass == m_pc \in {"touch", "insert", "capture", "write", "enforce"}

\* a block that raises the threat level and leaves device_type alone
AdminUpdate_block_threat_only(r, id, action) ==
    IF action = "allow"
    THEN [r EXCEPT ![id].device_type = "whitelisted",
                   ![id].threat_level = "low"]
    ELSE IF action = "block"
    THEN [r EXCEPT ![id].threat_level = "high"]
    ELSE IF action = "remove"
    THEN [i \in DOMAIN r \ {id} |-> r[i]]
    ELSE r

\* an allow that takes a whitelisted row back to unknown
AdminUpdate_allow_toggles(r, id, action) ==
    IF action = "allow"
    THEN [r EXCEPT ![id].device_type =
                       IF r[id].device_type = "whitelisted" THEN "unknown"
                       ELSE "whitelisted",
                   ![id].threat_level = "low"]
    ELSE IF action = "block"
    THEN [r EXCEPT ![id].device_type = "blocked", ![id].threat_level = "high"]
    ELSE IF action = "remove"
    THEN [i \in DOMAIN r \ {id} |-> r[i]]
    ELSE r

\* the UPDATE or DELETE of the request, WHERE id
AdminUpdate(r, id, action) ==
    IF action = "allow"
    THEN [r EXCEPT ![id].device_type = "whitelisted",
                   ![id].threat_level = "low"]
    ELSE IF action = "block"
    THEN [r EXCEPT ![id].device_type = "blocked", ![id].threat_level = "high"]
    ELSE IF action = "remove"
    THEN [i \in DOMAIN r \ {id} |-> r[i]]
    ELSE r

\* a DELETE that is issued without looking the id up first
AdminStatus_remove_unchecked(r, id, action) ==
    IF action = "remove" THEN 200
    ELSE IF id \notin DOMAIN r THEN 404
    ELSE IF action \notin {"allow", "block"} THEN 400
    ELSE 200

\* the HTTP status of the request: 404 when the SELECT WHERE id finds no
\* row, 400 for an action that is none of the three, else 200
AdminStatus(r, id, action) ==
    IF id \notin DOMAIN r THEN 404
    ELSE IF action \notin {"allow", "block", "remove"} THEN 400
    ELSE 200

\* the handler run on its own from registry r: the registry it leaves and
\* the status it returns
AdminEffect(r, id, action) ==
    LET st == AdminStatus(r, id, action)
    IN  [reg |-> IF st = 200 THEN AdminUpdate(r, id, action) ELSE r,
         status |-> st]

\* POST /device/<id>/action up to the commit
AdminRequest(id, action) ==
    /\ a_pc = "idle"
    /\ n_events < MaxEvents
    /\ n_events' = n_events + 1
    /\ IF AdminStatus(reg, id, action) = 404
       THEN /\ a_resp' = 404
            /\ UNCHANGED <<reg, a_pc, a_req, admin_touched, admin_set, touched,
                   pass_touched>>
       ELSE IF AdminStatus(reg, id, action) = 400
       THEN /\ a_resp' = 400
            /\ UNCHANGED <<reg, a_pc, a_req, admin_touched, admin_set, touched,
                   pass_touched>>
       ELSE /\ reg' = AdminUpdate(reg, id, action)
            /\ IF action = "remove"
               THEN a_pc' = "idle" /\ a_resp' = 200 /\ UNCHANGED a_req
               ELSE /\ a_pc' = "enforce"
                    /\ a_req' = [id |-> id, action |-> action,
                                 vid |-> reg[id].usb_vid,
                                 pid |-> reg[id].usb_pid]
                    /\ UNCHANGED a_resp
            /\ admin_touched' =
                 admin_touched \cup {RowKey(reg[i]) : i \in {id} \cap DOMAIN reg}
            /\ admin_set' = (IF action = "remove" THEN admin_set \ {id}
                             ELSE admin_set \cup {id})
            /\ touched' = (IF action = "remove" THEN touched \ {id}
                           ELSE touched)
            /\ pass_touched' =
                 (pass_touched
                    \/ (InPass /\ \E i \in {id} \cap DOMAIN reg :
                                     RowKey(reg[i]) = m_key))
    /\ UNCHANGED <<platform, backend, attached, last_check, seen_devices,
                   current_devices, next_id, now, m_pc, m_todo, m_key,
                   m_existing, m_result, m_rowcount, calls, n_starts,
                   n_restarts>>
    /\ UNCHANGED <<skip_reason, fixed>>
    /\ UNCHANGED <<prev_enum, newly>>

\* the request's enforcement with block_device called for either action
AdminEnforce_always_block(ok) ==
    IF backend THEN Called("admin", "block", a_req.vid, a_req.pid, ok)
    ELSE calls

\* if devcon_path: allow_device / block_device; else a warning
AdminEnforce(ok) ==
    IF backend THEN Called("admin", a_req.action, a_req.vid, a_req.pid, ok)
    ELSE calls

\* the rest of the request: the enforcement call and the response
AdminFinish ==
    /\ a_pc = "enforce"
    /\ \E ok \in BOOLEAN :
          /\ calls' = AdminEnforce(ok)
          /\ reg' = AfterEnforce(reg, {a_req.id} \cap DOMAIN reg, ok)
    /\ a_pc' = "idle"
    /\ a_req' = NoRequest
    /\ a_resp' = 200
    /\ UNCHANGED <<platform, backend, attached, last_check, seen_devices,
                   current_devices, next_id, now, m_pc, m_todo, m_key,
                   m_existing, m_result, m_rowcount, n_starts,
                   admin_touched, admin_set, touched, pass_touched,
                   n_events, n_restarts>>
    /\ UNCHANGED <<skip_reason, fixed>>
    /\ UNCHANGED <<prev_enum, newly>>

-----------------------------------------------------------------------------

Next ==
    \/ \E d \in Devices(platform) : Attach(d)
    \/ \E d \in Devices(platform) : Detach(d)
    \/ Restart
    \/ Poll
    \/ \E d \in Devices(platform) : NextDevice(d)
    \/ EndTick
    \/ Select
    \/ Touch
    \/ Insert
    \/ \E w \in CaptureWindows, pred \in {0, 1} : CaptureEnd(w, pred)
    \/ Write
    \/ Enforce
    \/ \E id \in 1..MaxId, action \in Actions : AdminRequest(id, action)
    \/ AdminFinish

Spec == Init /\ [][Next]_vars

-----------------------------------------------------------------------------
(* The program with a detector that may hold no model: analyze_device_with_ml *)
(* called with ml_detector.model None or not None.                           *)

InitAnyModel ==
    /\ InitMain
    /\ model_loaded \in BOOLEAN
    /\ MLOff
    /\ GwOff
    /\ SerOff
    /\ FetOff

SpecAnyModel == InitAnyModel /\ [][Next]_vars

-----------------------------------------------------------------------------
(* extract_features and predict called on their own, on every window of     *)
(* MLWindows and on every vector of FeatureVectors, with and without a      *)
(* model.                                                                   *)

InitML ==
    /\ MainOff
    /\ GwOff
    /\ SerOff
    /\ FetOff
    /\ ml_pc = "start"
    /\ ml_window \in MLWindows
    /\ ml_loaded \in BOOLEAN
    /\ ml_pred \in {0, 1}
    /\ ml_features = NoFeatures
    /\ ml_verdict = NoVerdict

\* features = detector.extract_features(keystrokes)
ML_Extract ==
    /\ ml_pc = "start"
    /\ ml_features' = extract_features(ml_window)
    /\ ml_pc' = "extracted"
    /\ UNCHANGED <<ml_window, ml_loaded, ml_pred, ml_verdict, main_vars,
                   gw_vars, ser_vars, fet_vars>>

\* result, confidence, reasons = detector.predict(features)
ML_Predict ==
    /\ ml_pc = "extracted"
    /\ ~ml_features.none
    /\ ml_verdict' = predict(ml_features, ml_loaded, ml_pred)
    /\ ml_pc' = "predicted"
    /\ UNCHANGED <<ml_window, ml_loaded, ml_pred, ml_features, main_vars,
                   gw_vars, ser_vars, fet_vars>>

\* detector.predict(fv) on a feature dict that comes from no window
ML_PredictGiven(fv) ==
    /\ ml_pc = "start"
    /\ ml_window = <<>>
    /\ ml_features' = fv
    /\ ml_verdict' = predict(fv, ml_loaded, ml_pred)
    /\ ml_pc' = "given"
    /\ UNCHANGED <<ml_window, ml_loaded, ml_pred, main_vars, gw_vars,
                   ser_vars, fet_vars>>

NextML ==
    \/ ML_Extract
    \/ ML_Predict
    \/ \E fv \in FeatureVectors : ML_PredictGiven(fv)

SpecML == InitML /\ [][NextML]_vars

-----------------------------------------------------------------------------
(* The linux gateway exercised on one device: the dashboard's allow and     *)
(* block on its row, each with the gateway call it makes, the device being  *)
(* pulled out and plugged in, and the program being started again under     *)
(* another user.                                                            *)

InitGateway ==
    /\ MainOff
    /\ MLOff
    /\ SerOff
    /\ FetOff
    /\ g_on = TRUE
    /\ g_root \in BOOLEAN
    /\ g_udevadm \in BOOLEAN
    /\ g_backend \in BOOLEAN
    /\ g_rules = {}
    /\ g_present \in BOOLEAN
    /\ g_authorized = TRUE
    /\ g_reg = [i \in {1} |-> NewRow(device_key("linux", GwDev), 0)]
    /\ g_prev = "none"
    /\ g_last = NoGwAction
    /\ g_steps = 0

\* update_device for allow or block on the device's row: the UPDATE, then
\* the gateway call when the backend is there.  file_ok: the write or the
\* removal of the rule file did not raise; tog_ok: nor did the write to the
\* authorized file.
GW_Admin(action, file_ok, tog_ok) ==
    /\ g_on
    /\ g_steps < MaxGwSteps
    /\ g_steps' = g_steps + 1
    /\ AdminStatus(g_reg, 1, action) = 200
    /\ g_reg' = AdminUpdate(g_reg, 1, action)
    /\ LET vid == g_reg[1].usb_vid
           pid == g_reg[1].usb_pid
           os == [rules |-> g_rules, authorized |-> g_authorized,
                  present |-> g_present, root |-> g_root,
                  udevadm |-> g_udevadm]
           r == IF action = "block"
                THEN block_device_linux(os, vid, pid, file_ok, tog_ok)
                ELSE allow_device_linux(os, vid, pid, file_ok, tog_ok)
       IN  /\ IF g_backend
              THEN g_rules' = r.rules /\ g_authorized' = r.authorized
              ELSE UNCHANGED <<g_rules, g_authorized>>
           /\ g_last' = [action |-> action, called |-> g_backend,
                         file_ok |-> g_root /\ file_ok,
                         had_rule |-> rule_file(vid, pid) \in g_rules,
                         present |-> g_present,
                         tog_ok |-> g_present /\ tog_ok,
                         ret |-> g_backend /\ r.ret,
                         raised |-> g_backend /\ r.raised]
    /\ g_prev' = g_last.action
    /\ UNCHANGED <<g_on, g_root, g_udevadm, g_backend, g_present, main_vars,
                   ml_vars, ser_vars, fet_vars>>

\* the device is pulled out, or plugged in: udev runs the rules of the add
\* event, and a block rule writes 0 to authorized
GW_Replug ==
    /\ g_on
    /\ g_steps < MaxGwSteps
    /\ g_steps' = g_steps + 1
    /\ g_present' = ~g_present
    /\ g_authorized' = (g_present
                          \/ rule_file(GwDev.vid, GwDev.pid) \notin g_rules)
    /\ UNCHANGED <<g_on, g_root, g_udevadm, g_backend, g_rules, g_reg,
                   g_prev, g_last, main_vars, ml_vars,
                   ser_vars, fet_vars>>

\* the program is stopped and started again, with or without sudo; the rule
\* files and the table stay
GW_Restart(root) ==
    /\ g_on
    /\ g_steps < MaxGwSteps
    /\ g_steps' = g_steps + 1
    /\ g_root' = root
    /\ UNCHANGED <<g_on, g_udevadm, g_backend, g_rules, g_present,
                   g_authorized, g_reg, g_prev, g_last, main_vars, ml_vars,
                   ser_vars, fet_vars>>

NextGateway ==
    \/ \E action \in {"allow", "block"}, file_ok, tog_ok \in BOOLEAN :
          GW_Admin(action, file_ok, tog_ok)
    \/ GW_Replug
    \/ \E root \in BOOLEAN : GW_Restart(root)

SpecGateway == InitGateway /\ [][NextGateway]_vars

-----------------------------------------------------------------------------
(* normalize_serial called on its own, on every raw serial of RawSerials,   *)
(* as the windows loop (usb_monitor.py, usb_fetcher.py) and as the linux    *)
(* loop (usb_linux.py) define it.                                           *)

\* characters of a raw serial: a letter, the separator of a windows
\* instance id, a blank and a non-printable character
SerialChars == {"A", "&", " ", "NUL"}

RawSerials == UNION {[1..n -> SerialChars] : n \in 0..MaxSerialLen}

InitSerial ==
    /\ MainOff
    /\ MLOff
    /\ GwOff
    /\ FetOff
    /\ s_pc = "start"
    /\ s_platform \in {"windows", "linux"}
    /\ s_raw \in RawSerials
    /\ s_out = <<>>

\* serial = normalize_serial(serial)
S_Normalize ==
    /\ s_pc = "start"
    /\ s_out' = normalize_serial(s_platform, s_raw)
    /\ s_pc' = "done"
    /\ UNCHANGED <<s_platform, s_raw, main_vars, ml_vars, gw_vars,
                   fet_vars>>

NextSerial == S_Normalize

SpecSerial == InitSerial /\ [][NextSerial]_vars

-----------------------------------------------------------------------------
(* usb_fetcher.py: the standalone fetcher.  It polls the enumerator every   *)
(* half second until a poll reports an added device or the timeout has      *)
(* passed.  Time is counted in half seconds, the length of its sleep.       *)

\* timeout = 30  # seconds
timeout == 30

\* time.sleep(0.5): half seconds in a second
TicksPerSecond == 2

\* half seconds one turn of the loop takes: the sleep alone, or the sleep
\* and as much again for the poll
FetchSteps == {1, 2}

\* a loop without the timeout test
TimedOut_never(t) == FALSE

\* time.time() - start_time > timeout
TimedOut(t) == t > timeout * TicksPerSecond

InitFetcher ==
    /\ MainOff
    /\ MLOff
    /\ GwOff
    /\ SerOff
    /\ f_pc = "poll"
    /\ f_time = 0
    /\ f_attached \in SUBSET Devices("windows")
    \* USBMonitor() records the devices present when it is constructed
    /\ f_last = f_attached
    /\ f_detected = FALSE
    /\ f_handled = <<>>
    \* usb_devices.db may hold rows of an earlier run
    /\ f_rows \in {{}, {device_key("windows", DevA)}}
    /\ f_events = 0

\* a device is plugged in or pulled out while the fetcher runs
F_Attach(d) ==
    /\ f_pc \in {"poll", "sleep"}
    /\ f_events < MaxFetchEvents
    /\ d \notin f_attached
    /\ f_attached' = f_attached \cup {d}
    /\ f_events' = f_events + 1
    /\ UNCHANGED <<f_pc, f_time, f_last, f_detected, f_handled, f_rows,
                   main_vars, ml_vars, gw_vars, ser_vars>>

F_Detach(d) ==
    /\ f_pc \in {"poll", "sleep"}
    /\ f_events < MaxFetchEvents
    /\ d \in f_attached
    /\ f_attached' = f_attached \ {d}
    /\ f_events' = f_events + 1
    /\ UNCHANGED <<f_pc, f_time, f_last, f_detected, f_handled, f_rows,
                   main_vars, ml_vars, gw_vars, ser_vars>>

\* one turn of the while loop up to the sleep: changes_from_last_check, the
\* for loop that handles the first added device and breaks, the timeout
\* test.  d is the first item of added.items(), or none
F_Poll ==
    /\ f_pc = "poll"
    /\ f_last' = f_attached
    /\ LET added == f_attached \ f_last
       IN  IF added = {}
           THEN UNCHANGED <<f_detected, f_handled, f_rows>>
           ELSE \E d \in added :
                   /\ f_handled' = Append(f_handled, d)
                   /\ f_rows' = f_rows \cup {device_key("windows", d)}
                   /\ f_detected' = TRUE
    /\ f_pc' = (IF TimedOut(f_time) THEN "done" ELSE "sleep")
    /\ UNCHANGED <<f_time, f_attached, f_events, main_vars, ml_vars,
                   gw_vars, ser_vars>>

\* time.sleep(0.5), then the test of the while: not new_device_detected
F_Sleep ==
    /\ f_pc = "sleep"
    /\ f_time < MaxFetchTime
    /\ \E step \in FetchSteps : f_time' = f_time + step
    /\ f_pc' = (IF f_detected THEN "done" ELSE "poll")
    /\ UNCHANGED <<f_attached, f_last, f_detected, f_handled, f_rows,
                   f_events, main_vars, ml_vars, gw_vars, ser_vars>>

NextFetcher ==
    \/ \E d \in Devices("windows") : F_Attach(d)
    \/ \E d \in Devices("windows") : F_Detach(d)
    \/ F_Poll
    \/ F_Sleep

\* the interpreter keeps running the script: a step of the loop that can be
\* taken is taken
SpecFetcher ==
    InitFetcher /\ [][NextFetcher]_vars /\ WF_vars(F_Poll) /\ WF_vars(F_Sleep)

-----------------------------------------------------------------------------
(* Properties *)

\* a step of the monitor thread (usb_monitor_loop and what it calls)
MonitorStep == <<m_pc, m_todo>>' # <<m_pc, m_todo>>

\* the rows presently in one of the two administrator-decided states
Decided(r) == {i \in DOMAIN r : r[i].device_type \in {"whitelisted", "blocked"}}

\* C1 (as stated): once an administrator has set a row to whitelisted or
\* blocked, no step of the monitor thread changes that row's device_type or
\* threat_level, the verdict write of a pass that was already capturing
\* included.
C1_AdminPrecedence ==
    [][MonitorStep =>
         \A i \in admin_set \cap DOMAIN reg :
            /\ i \in DOMAIN reg'
            /\ reg'[i].device_type = reg[i].device_type
            /\ reg'[i].threat_level = reg[i].threat_level]_vars

\* C2: when the SELECT of an observation finds the device's row whitelisted
\* or blocked, the observation reads that state and then returns without
\* starting a capture, a classification or an enforcement call of the
\* monitor.
C2_DecidedIsSkipped ==
    [][/\ (m_pc = "select" /\ m_pc' # "select") =>
             \A i \in RowsOf(reg, m_key) \cap Decided(reg) :
                /\ m_pc' = "touch"
                /\ m_existing'.device_type = reg[i].device_type
       /\ (m_pc = "touch" /\ m_existing.device_type \in {"whitelisted", "blocked"})
             => /\ m_pc' \in {"touch", "iter"}
                /\ n_starts' = n_starts
                /\ MonitorStep => calls' = calls]_vars

\* C2 witness: an observation has read a blocked row that no pass is running
\* for
C2_Witness ==
    /\ m_pc = "touch"
    /\ m_existing.device_type = "blocked"
    /\ \E i \in RowsOf(reg, m_key) : reg[i].device_type = "blocked"

\* C3 (as stated): within one run of the process, with no administrator
\* action on the device, the pipeline is started at most once per key.
C3_AtMostOnePass ==
    \A k \in Keys :
        (k \notin admin_touched /\ n_restarts = 0) => n_starts[k] <= 1

\* C3 (amended): once a pass has left a device blocked, and while no
\* administrator action has touched the device, no further pass is started
\* for its key; a device a pass left unknown is analysed again at its next
\* observation.
C3_NoPassAfterBlocked ==
    [][\A k \in Keys :
          (/\ k \notin admin_touched'
           /\ \E i \in RowsOf(reg, k) : reg[i].device_type = "blocked")
          => n_starts'[k] = n_starts[k]]_vars

\* C3 witness: a device blocked by its one pass has been observed again
C3_Witness ==
    /\ m_pc = "touch"
    /\ m_key \notin admin_touched
    /\ n_starts[m_key] = 1
    /\ \E i \in RowsOf(reg, m_key) : reg[i].device_type = "blocked"

\* C4: the registry never holds two rows with the same
\* (usb_vid, usb_pid, usb_serial).
C4_UniqueKey ==
    \A i, j \in DOMAIN reg : RowKey(reg[i]) = RowKey(reg[j]) => i = j

\* C4 witness: a key that already had a row has been observed again and
\* still has one row
C4_Witness ==
    /\ m_pc = "capture"
    /\ m_existing.found
    /\ RowsOf(reg, m_key) = {m_existing.id}
    /\ m_existing.id \in touched

\* C5: the observation of a key that has a row changes nothing in the
\* registry but the last_seen of that row.
C5_TouchFrame ==
    [][(m_pc = "touch" /\ m_pc' # "touch") =>
          /\ DOMAIN reg' = DOMAIN reg
          /\ \A i \in DOMAIN reg :
                /\ [reg'[i] EXCEPT !.last_seen = reg[i].last_seen] = reg[i]
                /\ i # m_existing.id => reg'[i] = reg[i]]_vars

\* C5 witness: the observation of a blocked row has returned; the row has
\* the time of that observation and is still blocked
C5_Witness ==
    /\ m_pc = "iter"
    /\ \E i \in touched :
          /\ reg[i].device_type = "blocked"
          /\ reg[i].threat_level = "high"
          /\ reg[i].last_seen = now

\* the rows of key k in r, all of them blocked with threat high
BlockedHigh(r, k) ==
    \A i \in RowsOf(r, k) :
        r[i].device_type = "blocked" /\ r[i].threat_level = "high"

\* C6 (as stated): a pass that classified its device USB_DUCKY ends with the
\* device's row present, blocked and high.
C6_DuckyEndsBlocked ==
    [][(m_pc = "enforce" /\ m_pc' # "enforce") =>
          (RowsOf(reg', m_key) # {} /\ BlockedHigh(reg', m_key))]_vars

\* C6 (amended): the USB_DUCKY write leaves every row of the device's key
\* blocked and high, and the pass ends with the row present, blocked and high
\* unless an administrator action changed that row while the pass ran.
C6_DuckyBlocksUnlessAdmin ==
    [][/\ (m_pc = "write" /\ m_result = "USB_DUCKY" /\ m_pc' # "write")
             => BlockedHigh(reg', m_key)
       /\ (m_pc = "enforce" /\ m_pc' # "enforce" /\ ~pass_touched)
             => (RowsOf(reg', m_key) # {} /\ BlockedHigh(reg', m_key))]_vars

\* C6 witness: the USB_DUCKY write of an undisturbed pass has been made
C6_Witness ==
    /\ m_pc = "enforce"
    /\ m_result = "USB_DUCKY"
    /\ ~pass_touched
    /\ RowsOf(reg, m_key) # {}
    /\ BlockedHigh(reg, m_key)

\* rows that this step moves into device_type t
MovedInto(t) ==
    {i \in DOMAIN reg' :
        reg'[i].device_type = t /\ (i \in DOMAIN reg => reg[i].device_type # t)}

\* this step records exactly one call (by, op, vid, pid), whatever it returned
OneCall(by, op, vid, pid) ==
    \E ok \in BOOLEAN :
        calls' = calls (+) SetToBag({[by |-> by, op |-> op, vid |-> vid,
                                      pid |-> pid, ok |-> ok]})

\* every move into blocked or whitelisted puts its handler before its
\* enforcement step, for that row's vid and pid
MoveLeadsToEnforce ==
    /\ \A i \in MovedInto("blocked") :
          \/ m_pc = "write" /\ m_pc' = "enforce" /\ RowKey(reg'[i]) = m_key
          \/ /\ a_pc = "idle" /\ a_pc' = "enforce"
             /\ a_req' = [id |-> i, action |-> "block",
                          vid |-> reg'[i].usb_vid, pid |-> reg'[i].usb_pid]
    /\ \A i \in MovedInto("whitelisted") :
          /\ a_pc = "idle" /\ a_pc' = "enforce"
          /\ a_req' = [id |-> i, action |-> "allow",
                       vid |-> reg'[i].usb_vid, pid |-> reg'[i].usb_pid]

\* C7 (as stated): every move into blocked is followed in its handler by
\* exactly one block call for the row's vid and pid, every move into
\* whitelisted by exactly one allow call, with or without a backend.
C7_CallPerTransition ==
    [][/\ MoveLeadsToEnforce
       /\ (m_pc = "enforce" /\ m_pc' # "enforce")
             => OneCall("monitor", "block", m_key[1], m_key[2])
       /\ (a_pc = "enforce" /\ a_pc' # "enforce")
             => OneCall("admin", a_req.action, a_req.vid, a_req.pid)]_vars

\* C7 (amended): with a backend found at startup every move into blocked is
\* followed in its handler by exactly one block call for the row's vid and
\* pid and every move into whitelisted by exactly one allow call; without a
\* backend the handlers make no call; no other step makes a call.
C7_CallPerTransitionWithBackend ==
    [][/\ MoveLeadsToEnforce
       /\ (m_pc = "enforce" /\ m_pc' # "enforce")
             => IF backend THEN OneCall("monitor", "block", m_key[1], m_key[2])
                ELSE calls' = calls
       /\ (a_pc = "enforce" /\ a_pc' # "enforce")
             => IF backend
                THEN OneCall("admin", a_req.action, a_req.vid, a_req.pid)
                ELSE calls' = calls
       /\ calls' # calls
             => \/ m_pc = "enforce" /\ m_pc' # "enforce"
                \/ a_pc = "enforce" /\ a_pc' # "enforce"]_vars

\* C7 witness: a verdict has blocked one device and an administrator has
\* whitelisted another, and each move has its one call
C7_Witness ==
    /\ backend
    /\ m_pc = "iter"
    /\ a_pc = "idle"
    /\ \E i, j \in DOMAIN reg :
          /\ reg[i].device_type = "blocked"
          /\ reg[j].device_type = "whitelisted"
          /\ admin_set = {j}
          /\ \E c, d \in BagToSet(calls) :
                /\ c.by = "monitor" /\ c.op = "block"
                /\ c.vid = reg[i].usb_vid /\ c.pid = reg[i].usb_pid
                /\ d.by = "admin" /\ d.op = "allow"
                /\ d.vid = reg[j].usb_vid /\ d.pid = reg[j].usb_pid
                /\ BagCardinality(calls) = 2

\* C8: a row becomes whitelisted only in the UPDATE of an administrator's
\* allow request, so every whitelisted row was set by one; the write of a
\* verdict other than USB_DUCKY sets threat_level low on the device's rows and
\* changes no device_type, so an unknown row stays unknown.
C8_OnlyAdminWhitelists ==
    [][/\ \A i \in MovedInto("whitelisted") :
             /\ a_pc = "idle"
             /\ a_req'.id = i /\ a_req'.action = "allow"
             /\ ~MonitorStep
       /\ \A i \in Decided(reg') :
             reg'[i].device_type = "whitelisted" => i \in admin_set'
       /\ (m_pc = "write" /\ m_result # "USB_DUCKY" /\ m_pc' # "write")
             => /\ DOMAIN reg' = DOMAIN reg
                /\ \A i \in DOMAIN reg :
                      /\ reg'[i].device_type = reg[i].device_type
                      /\ RowKey(reg[i]) = m_key
                            => reg'[i].threat_level = "low"]_vars

\* C8 witness: a pass has ended with a verdict other than USB_DUCKY and left
\* its row unknown with threat low, next to a row an administrator
\* whitelisted
C8_Witness ==
    /\ m_pc = "iter"
    /\ \E i, j \in DOMAIN reg :
          /\ reg[i].device_type = "unknown"
          /\ reg[i].threat_level = "low"
          /\ n_starts[RowKey(reg[i])] = 1
          /\ i \notin admin_set
          /\ reg[j].device_type = "whitelisted"
          /\ j \in admin_set

\* the enforcement calls recorded so far that returned failure
FailedCalls == {c \in BagToSet(calls) : ~c.ok}

\* C9: the enforcement step of either handler leaves the registry as its
\* write left it, whether the call succeeded, failed, or was not made for
\* want of a backend.
C9_NoRollback ==
    [][((m_pc = "enforce" /\ m_pc' # "enforce")
          \/ (a_pc = "enforce" /\ a_pc' # "enforce")) => reg' = reg]_vars

\* C9 witness: a block call of the monitor has failed and the row is blocked
\* and high, and an allow call of an administrator has failed and the row is
\* whitelisted and low
C9_Witness ==
    /\ m_pc = "iter"
    /\ a_pc = "idle"
    /\ \E c, d \in FailedCalls :
          /\ c.by = "monitor" /\ c.op = "block"
          /\ d.by = "admin" /\ d.op = "allow"
    /\ \E i, j \in DOMAIN reg :
          /\ reg[i].device_type = "blocked" /\ reg[i].threat_level = "high"
          /\ reg[j].device_type = "whitelisted" /\ reg[j].threat_level = "low"

\* C10 (as stated): the monitor calls the gateway only for block, and only
\* in a pass whose verdict write has put a row of the device into blocked.
C10_CallOnlyOnBlock ==
    [][\A c \in BagToSet(calls') :
          (c.by = "monitor" /\ CopiesIn(c, calls') > CopiesIn(c, calls))
          => /\ c.op = "block"
             /\ m_result = "USB_DUCKY"
             /\ m_rowcount > 0]_vars

\* the three actions of the dashboard
AdminActions == {"allow", "block", "remove"}

\* C11: a request for allow, block or remove on an id that has no row
\* answers 404, leaves the registry as it was (same rows, same fields) and
\* makes no gateway call.
C11_NotFoundNoChange ==
    [][\A id \in 1..MaxId, action \in AdminActions :
          (AdminRequest(id, action) /\ id \notin DOMAIN reg)
          => /\ a_resp' = 404
             /\ reg' = reg
             /\ calls' = calls
             /\ a_pc' = "idle"]_vars

\* C11 witness: a request has been answered 404 while the registry holds a
\* row of another id, and no gateway call has been made
C11_Witness ==
    /\ a_resp = 404
    /\ a_pc = "idle"
    /\ DOMAIN reg # {}
    /\ calls = EmptyBag

\* C12: on an id that has a row, the write of allow leaves that row
\* whitelisted and low, the write of block leaves it blocked and high, the
\* write of remove deletes that row and no other; every other row, and
\* every other field of the row, is as before.
C12_ActionEffect ==
    [][\A id \in 1..MaxId, action \in AdminActions :
          (AdminRequest(id, action) /\ id \in DOMAIN reg)
          => /\ action = "allow" =>
                   /\ DOMAIN reg' = DOMAIN reg
                   /\ reg'[id].device_type = "whitelisted"
                   /\ reg'[id].threat_level = "low"
             /\ action = "block" =>
                   /\ DOMAIN reg' = DOMAIN reg
                   /\ reg'[id].device_type = "blocked"
                   /\ reg'[id].threat_level = "high"
             /\ action = "remove" => DOMAIN reg' = DOMAIN reg \ {id}
             /\ \A i \in DOMAIN reg' :
                   /\ i # id => reg'[i] = reg[i]
                   /\ [reg'[i] EXCEPT !.device_type = reg[i].device_type,
                                      !.threat_level = reg[i].threat_level]
                        = reg[i]]_vars

\* C12 witness: two rows are in the registry, an administrator has blocked
\* one of them and it is blocked and high, and the other is still unknown
C12_Witness ==
    \E i, j \in DOMAIN reg :
        /\ i # j
        /\ i \in admin_set
        /\ j \notin admin_set
        /\ reg[i].device_type = "blocked" /\ reg[i].threat_level = "high"
        /\ reg[j].device_type = "unknown" /\ reg[j].threat_level = "unknown"

\* the same action applied a second time, directly after the first
AdminTwice(r, id, action) ==
    AdminEffect(AdminEffect(r, id, action).reg, id, action)

\* C13 (as stated): for every registry the program reaches, an action
\* applied twice in a row to the same id leaves the registry that one
\* application leaves and returns the same outcome.
C13_Idempotent ==
    \A id \in 1..MaxId, action \in AdminActions :
        /\ AdminTwice(reg, id, action).reg = AdminEffect(reg, id, action).reg
        /\ AdminTwice(reg, id, action).status
             = AdminEffect(reg, id, action).status

\* C13: an action applied twice in a row leaves the registry that one
\* application leaves; the second allow or block returns what the first
\* returned, and the second remove of a row that was there returns 404.
C13_IdempotentOnRegistry ==
    \A id \in 1..MaxId, action \in AdminActions :
        /\ AdminTwice(reg, id, action).reg = AdminEffect(reg, id, action).reg
        /\ action # "remove" =>
              AdminTwice(reg, id, action).status
                = AdminEffect(reg, id, action).status
        /\ (action = "remove" /\ id \in DOMAIN reg) =>
              /\ AdminEffect(reg, id, action).status = 200
              /\ AdminTwice(reg, id, action).status = 404

\* C13 witness: an administrator has allowed the same row twice, both
\* requests have made their gateway call, and the row is whitelisted and low
C13_Witness ==
    /\ a_pc = "idle"
    /\ \E i \in admin_set :
          /\ reg[i].device_type = "whitelisted"
          /\ reg[i].threat_level = "low"
          /\ \E c \in BagToSet(calls) :
                /\ c.by = "admin" /\ c.op = "allow"
                /\ c.vid = reg[i].usb_vid /\ c.pid = reg[i].usb_pid
                /\ CopiesIn(c, calls) = 2

\* C19: a pass whose capture window holds fewer than two events, so that
\* no features can be extracted, returns to the loop with the registry and
\* the gateway calls as they were.
C19_ShortWindowSkipped ==
    [][\A w \in CaptureWindows, pred \in {0, 1} :
          (m_pc = "capture" /\ extract_features(w).none /\ CaptureEnd(w, pred))
          => /\ m_pc' = "iter"
             /\ reg' = reg
             /\ calls' = calls]_vars

\* C19 witness: the only pass of a device has returned because its window
\* gave no features; its row is unknown with threat level unknown and no
\* call has been made
C19_Witness ==
    /\ m_pc = "iter"
    /\ skip_reason = "no_features"
    /\ calls = EmptyBag
    /\ \E i \in DOMAIN reg :
          /\ n_starts[RowKey(reg[i])] = 1
          /\ reg[i].device_type = "unknown"
          /\ reg[i].threat_level = "unknown"

\* predict has returned, for a window or for a vector handed to it
Predicted == ml_pc \in {"predicted", "given"}

\* C15: for every feature vector whose speed is 100 keys/sec or more,
\* predict returns USB_DUCKY with confidence 100 and one reason, the
\* extreme typing speed, whatever the other features, the terminal flag,
\* the presence of a model and the class the model would return.
C15_SpeedOverride ==
    (Predicted /\ ml_features.speed_num >= 100 * ml_features.speed_den)
    => /\ ml_verdict.result = "USB_DUCKY"
       /\ ml_verdict.confidence = "100"
       /\ Len(ml_verdict.reasons) = 1
       /\ ml_verdict.reasons[1].text = "Extreme typing speed"

\* C15 witness: predict has returned USB_DUCKY by speed for a burst that has
\* a backspace, an enter and the run-dialog pair in it, with no model
C15_Witness ==
    /\ ml_pc = "predicted"
    /\ ml_window = WinFastMixed
    /\ ~ml_loaded
    /\ ml_features.terminal_triggered
    /\ ml_features.error_num > 0
    /\ ml_verdict.result = "USB_DUCKY"
    /\ ml_verdict.reasons[1].text = "Extreme typing speed"

\* the run-dialog key (Key.cmd, or a key named win) directly before the key r
HasRunPair(w) ==
    \E i \in 1..(Len(w) - 1) :
        /\ canon(w[i].k) \in {W_cmd, W_win}
        /\ canon(w[i + 1].k) = W_r

\* a shell name typed key by key from position i on, directly before enter
\* or return
HasShellEnter(w) ==
    \E name \in terminal_commands, i \in 1..Len(w) :
        /\ i + Len(name) <= Len(w)
        /\ \A m \in 1..Len(name) : canon(w[i + m - 1].k) = <<name[m]>>
        /\ canon(w[i + Len(name)].k) \in command_keys

\* C16 (as stated): every window in which the run-dialog key is followed by
\* the key r, or a shell name is typed and followed by enter or return, has
\* terminal_triggered set and is classified USB_DUCKY, whatever keys come
\* before or after the pair.
C16_TerminalPairAlways ==
    (ml_pc = "predicted"
       /\ (HasRunPair(ml_window) \/ HasShellEnter(ml_window)))
    => /\ ml_features.terminal_triggered
       /\ ml_verdict.result = "USB_DUCKY"

\* the text of the speed reason for 599.40 and for 600.00 keys/sec
Shown599_40 == <<"5", "9", "9", ".", "4", "0">>
Shown600_00 == <<"6", "0", "0", ".", "0", "0">>

\* C17 (as stated): the window of 600 keys over one second has a speed of
\* 600 keys/sec, no error and no command key, and is classified USB_DUCKY
\* with confidence 100 and the single reason that shows 600.00 keys/sec.
C17_SixHundred ==
    (ml_pc = "predicted" /\ ml_window = Win600)
    => /\ ml_features.speed_num = 600 * ml_features.speed_den
       /\ ml_features.error_num = 0
       /\ ml_features.command_num = 0
       /\ ml_verdict.result = "USB_DUCKY"
       /\ ml_verdict.confidence = "100"
       /\ ml_verdict.reasons
            = <<[text |-> "Extreme typing speed", value |-> Shown600_00]>>

\* C17: the window of 600 keys over one second has a speed of 600 / 1.001
\* keys/sec, no error and no command key, and is classified USB_DUCKY with
\* confidence 100 and the single reason that shows 599.40 keys/sec.
C17_SixHundredOverEpsilon ==
    (ml_pc = "predicted" /\ ml_window = Win600)
    => /\ 1001 * ml_features.speed_num = 600000 * ml_features.speed_den
       /\ ml_features.error_num = 0
       /\ ml_features.command_num = 0
       /\ ml_verdict.result = "USB_DUCKY"
       /\ ml_verdict.confidence = "100"
       /\ ml_verdict.reasons
            = <<[text |-> "Extreme typing speed", value |-> Shown599_40]>>

\* C17 witness: predict has returned for the window of 600 keys whose first
\* key is at 0 and whose last key is at one second
C17_Witness ==
    /\ ml_pc = "predicted"
    /\ Len(ml_window) = 600
    /\ ml_window[600].t - ml_window[1].t = 1000
    /\ ml_verdict.result = "USB_DUCKY"

RoundTrip == g_prev = "block" /\ g_last.action = "allow"

\* the rule file of the device's vendor and product id
GwRule == rule_file(GwDev.vid, GwDev.pid)

NoVerdictFor(w, pred) ==
    /\ AnalyseWith(w, TRUE, pred) # "skipped"
    /\ predict(extract_features(w), model_loaded, pred).result = "None"

-----------------------------------------------------------------------------
-----------------------------------------------------------------------------
\* the devices the loop drops: vendor or product id is not all hexadecimal
NotHex(s) == \E i \in 1..Len(s) : s[i] \notin HexChars

Malformed(p) == {d \in Devices(p) : NotHex(d.vid) \/ NotHex(d.pid)}

-----------------------------------------------------------------------------
\* C23 (as stated): on every poll tick each well-formed device that is
\* attached now and was absent at the previous tick is handed to
\* check_or_insert_device (whose first statement is the SELECT by key), also
\* when its key was seen earlier, detached and attached again.  (Distinct
\* devices of the model have distinct keys, so newly is also the set of new
\* keys.)
C23_NewKeyObserved ==
    [][\A d \in Devices(platform) :
          (/\ m_pc = "iter"
           /\ d \in newly
           /\ d \notin Malformed(platform)
           /\ NextDevice(d))
          => /\ m_pc' = "select"
             /\ m_key' = device_key(platform, d)]_vars

-----------------------------------------------------------------------------
\* C24 (as stated): at the end of every poll tick every key in the seen set
\* has a row in the registry, whatever the dashboard did in between.
C24_SeenHasRow ==
    [][EndTick => \A k \in seen_devices' : RowsOf(reg', k) # {}]_vars

-----------------------------------------------------------------------------
\* C25 (as stated): normalize_serial never returns an empty serial: an
\* absent or empty serial, and one that is empty once normalized, becomes
\* NoSerial; any other serial becomes its non-empty normalized text.
C25_SerialNeverEmpty ==
    s_pc = "done" => /\ s_out # <<>>
                     /\ s_raw = <<>> => s_out = NoSerial

-----------------------------------------------------------------------------
\* C26: block_device_linux and allow_device_linux return a boolean and do
\* not raise, whatever the combination of privilege (g_root), rule file
\* writable or removable (file_ok), matching device attached (present) and
\* authorized file writable (tog_ok).
C26_GatewayReturnsBoolean ==
    g_last.called => ~g_last.raised /\ g_last.ret \in BOOLEAN

\* a block without privilege, hence without rule, on an attached device
\* whose authorized file cannot be written: every step failed
C26_Witness ==
    /\ g_last.called
    /\ g_last.action = "block"
    /\ ~g_root
    /\ g_last.present
    /\ ~g_last.tog_ok
    /\ ~g_last.raised
    /\ g_last.ret = TRUE

\* C27 (as stated): when allow_device_linux returns True the block rule of
\* the device is gone and the attached device is authorized; a call in
\* which only one of the two steps succeeded does not return True.
C27_AllowSuccessMeansAllowed ==
    [][\A file_ok, tog_ok \in BOOLEAN :
          (/\ GW_Admin("allow", file_ok, tog_ok)
           /\ g_last'.called
           /\ g_last'.ret = TRUE)
          => /\ GwRule \notin g_rules'
             /\ g_present' => g_authorized']_vars

-----------------------------------------------------------------------------
\* C28 (as stated): for a window of two events or more, errorRate is the
\* number of backspace/delete tokens over the number of tokens, and
\* commandRate the number of enter/return tokens over the same number.
C28_RatesPerToken ==
    (ml_pc = "extracted" /\ ~ml_features.none /\ ml_features.keys # <<>>)
    => /\ ml_features.error_num * Len(ml_features.keys)
            = Count(ml_features.keys, error_keys) * ml_features.rate_den
       /\ ml_features.command_num * Len(ml_features.keys)
            = Count(ml_features.keys, command_keys) * ml_features.rate_den

\* C28: for a window of two events or more, errorRate is the number of
\* backspace/delete tokens and commandRate the number of enter/return
\* tokens, each over the number of key events of the window (totalKeys).
C28_RatesPerKeyEvent ==
    (ml_pc = "extracted" /\ ~ml_features.none)
    => /\ ml_features.error_num = Count(ml_features.keys, error_keys)
       /\ ml_features.command_num = Count(ml_features.keys, command_keys)
       /\ ml_features.rate_den = Len(ml_window)
       /\ ml_features.rate_den = ml_features.total_keys_5sec

\* five events in four tokens, one of them a backspace and one an enter:
\* both rates are 1/5
C28_Witness ==
    /\ ml_pc = "extracted"
    /\ ml_window = WinTypo
    /\ Len(ml_features.keys) = 4
    /\ ml_features.error_num = 1
    /\ ml_features.command_num = 1
    /\ ml_features.rate_den = 5

-----------------------------------------------------------------------------
\* predict took the model path: no override fired and a model is loaded
ModelPath ==
    /\ Predicted
    /\ ml_loaded
    /\ ml_features.speed_num < 100 * ml_features.speed_den
    /\ ~ml_features.terminal_triggered

\* the texts of the reasons of the verdict, in their order
ReasonTexts == [i \in 1..Len(ml_verdict.reasons) |-> ml_verdict.reasons[i].text]

\* the secondary features in the order of the list, and the ones past their
\* threshold: more than 500 keys, error rate under 2 per cent, command rate
\* over 20 per cent, keyword rate over 10 per cent
Secondary ==
    <<"High number of keys", "Very low error rate", "High command rate",
      "High keyword rate">>

PastThreshold(t) ==
    LET f == ml_features
    IN  \/ t = "High number of keys" /\ f.total_keys_5sec > 500
        \/ t = "Very low error rate" /\ 100 * f.error_num < 2 * f.rate_den
        \/ t = "High command rate" /\ 100 * f.command_num > 20 * f.rate_den
        \/ t = "High keyword rate"
              /\ 100 * f.keyword_num > 10 * f.keyword_den

\* C29: on the model path a USB_DUCKY verdict carries one reason for each
\* secondary feature past its threshold, in the order keys, error rate,
\* command rate, keyword rate, and the reason "ML model classification"
\* exactly when none is past its threshold; a HUMAN verdict carries no
\* reason.
C29_ModelPathReasons ==
    ModelPath =>
       IF ml_pred = 1
       THEN /\ ml_verdict.result = "USB_DUCKY"
            /\ LET past == SelectSeq(Secondary, PastThreshold)
               IN  ReasonTexts = (IF past = <<>>
                                  THEN <<"ML model classification">>
                                  ELSE past)
       ELSE /\ ml_verdict.result = "HUMAN"
            /\ ml_verdict.reasons = <<>>

\* a verdict of the forest with all four secondary features past their
\* threshold: 501 keys, no error, command rate 40 and keyword rate 20 per
\* cent
C29_Witness ==
    /\ ModelPath
    /\ ml_pred = 1
    /\ ml_features.total_keys_5sec = 501
    /\ ml_features.command_num = 2
    /\ ml_features.rate_den = 5
    /\ ml_features.keyword_num = 2
    /\ Len(ml_verdict.reasons) = 4

-----------------------------------------------------------------------------
\* the window yields a feature vector on which an override of predict fires:
\* 100 keys/sec or more, or a terminal pair
OverrideWindow(w) ==
    LET f == extract_features(w)
    IN  /\ ~f.none
        /\ \/ f.speed_num >= 100 * f.speed_den
           \/ f.terminal_triggered

\* C30 (as stated): when the loop analyses an unknown device and the window
\* yields a feature vector with avg_speed >= 100 or terminal_triggered, the
\* pass reaches the classifier, which returns USB_DUCKY, and goes on to
\* the write that blocks the device, whatever the number of keys.
C30_OverrideReachesClassifier ==
    [][\A w \in CaptureWindows, pred \in {0, 1} :
          (m_pc = "capture" /\ OverrideWindow(w) /\ CaptureEnd(w, pred))
          => /\ m_pc' = "write"
             /\ m_result' = "USB_DUCKY"]_vars

-----------------------------------------------------------------------------
\* C31 (as stated): in every state of the registry each row's two fields
\* agree: device_type blocked implies threat_level high, and device_type
\* whitelisted implies threat_level low.
C31_FieldsAgree ==
    \A i \in DOMAIN reg :
        /\ reg[i].device_type = "blocked" => reg[i].threat_level = "high"
        /\ reg[i].device_type = "whitelisted" => reg[i].threat_level = "low"

-----------------------------------------------------------------------------
\* the rows a block call for (vid, pid) made on behalf of key k also hits:
\* whitelisted rows of another key with the same vendor and product id
WhitelistedHit(r, vid, pid, k) ==
    {i \in DOMAIN r : /\ r[i].device_type = "whitelisted"
                      /\ RowKey(r[i]) # k
                      /\ r[i].usb_vid = vid
                      /\ r[i].usb_pid = pid}

\* C32 (as stated): no block call is issued on behalf of one identity key
\* while the row of another key with the same vendor and product id (a
\* second device of the same model with another serial) is whitelisted.
C32_BlockSparesWhitelisted ==
    [][/\ (m_pc = "enforce" /\ calls' # calls)
          => WhitelistedHit(reg, m_key[1], m_key[2], m_key) = {}
       /\ (a_pc = "enforce" /\ a_req.action = "block" /\ calls' # calls
             /\ a_req.id \in DOMAIN reg)
          => WhitelistedHit(reg, a_req.vid, a_req.pid,
                            RowKey(reg[a_req.id])) = {}]_vars

-----------------------------------------------------------------------------
\* C33 (as stated): at the moment the analysis pass issues its block call
\* the registry holds a row of the device's identity key with device_type
\* blocked, whatever the dashboard did during the pass.
C33_BlockCallHasBlockedRow ==
    [][(m_pc = "enforce" /\ calls' # calls)
       => \E i \in RowsOf(reg, m_key) : reg[i].device_type = "blocked"]_vars

-----------------------------------------------------------------------------
\* C34: the registry write of a transition is committed before its
\* enforcement call.  A handler comes to its enforcement step only by the
\* step that commits its UPDATE (the USB_DUCKY verdict write; the allow or
\* block UPDATE of the request); a step that moves a row into blocked or
\* whitelisted makes no call; a step that makes a call is the enforcement
\* step of a handler and moves no row into blocked or whitelisted.
C34_WriteBeforeCall ==
    [][/\ (m_pc # "enforce" /\ m_pc' = "enforce")
          => /\ m_pc = "write"
             /\ m_result = "USB_DUCKY"
             /\ reg' = VerdictWrite(reg, m_key, "USB_DUCKY")
             /\ calls' = calls
       /\ (a_pc # "enforce" /\ a_pc' = "enforce")
          => /\ a_req'.action \in {"allow", "block"}
             /\ a_req'.id \in DOMAIN reg'
             /\ reg'[a_req'.id].device_type =
                   (IF a_req'.action = "allow" THEN "whitelisted"
                    ELSE "blocked")
             /\ calls' = calls
       /\ (MovedInto("blocked") # {} \/ MovedInto("whitelisted") # {})
          => calls' = calls
       /\ calls' # calls
          => /\ \/ m_pc = "enforce" /\ m_pc' # "enforce"
                \/ a_pc = "enforce" /\ a_pc' # "enforce"
             /\ MovedInto("blocked") = {}
             /\ MovedInto("whitelisted") = {}]_vars

\* both handlers have made their call after their write: the monitor's
\* block call for a row that is blocked and the dashboard's allow call for
\* a row that is whitelisted
C34_Witness ==
    /\ m_pc = "poll"
    /\ a_pc = "idle"
    /\ \E c \in BagToSet(calls) :
          /\ c.by = "monitor" /\ c.op = "block"
          /\ \E i \in DOMAIN reg : /\ reg[i].device_type = "blocked"
                                    /\ reg[i].usb_vid = c.vid
                                    /\ reg[i].usb_pid = c.pid
    /\ \E d \in BagToSet(calls) :
          /\ d.by = "admin" /\ d.op = "allow"
          /\ \E j \in DOMAIN reg : /\ reg[j].device_type = "whitelisted"
                                    /\ reg[j].usb_vid = d.vid
                                    /\ reg[j].usb_pid = d.pid

-----------------------------------------------------------------------------
\* C35 (as stated): when block_device_linux returns True it has blocked
\* something: the rule file was written (the process is root and the write
\* went through) or the attached device was de-authorized; when both
\* failed it returns False.
C35_BlockSuccessMeansBlocked ==
    [][\A file_ok, tog_ok \in BOOLEAN :
          (/\ GW_Admin("block", file_ok, tog_ok)
           /\ g_last'.called
           /\ g_last'.ret = TRUE)
          => \/ g_last'.file_ok
             \/ g_last'.tog_ok]_vars

-----------------------------------------------------------------------------
\* C36: the fetcher loop terminates.  It hands at most one device to
\* check_or_insert_device, the first added device of the first poll that
\* reports any, and stops after it; otherwise it stops once more than 30
\* seconds have passed since the start.
C36_FetcherTerminates ==
    /\ <>(f_pc = "done")
    /\ [](Len(f_handled) <= 1)
    /\ [](f_detected <=> Len(f_handled) = 1)
    /\ [](f_pc = "done" => (f_detected \/ f_time > 30 * 2))
    /\ [][/\ (f_pc = "poll" /\ f_pc' # "poll" /\ f_attached \ f_last # {})
             => /\ ~f_detected
                /\ f_detected'
                /\ \E d \in f_attached \ f_last : f_handled' = <<d>>
          /\ f_detected => f_pc' \in {"sleep", "done"}]_vars

\* the loop has stopped on the timeout: no device was added in more than 30
\* seconds, although one was plugged in before the start
C36_Witness ==
    /\ f_pc = "done"
    /\ f_handled = <<>>
    /\ ~f_detected
    /\ f_time > 30 * 2
    /\ f_attached # {}

====
